---------------------------- MODULE Spec2Model ----------------------------
(***************************************************************************)
(* Model of the Matrixify pricing / tagging reconciliation scripts.        *)
(*                                                                         *)
(* Numbers.  JavaScript numbers are modelled in fixed point.  A monetary   *)
(* amount is an integer count of 1/1000 currency units (MU per unit), a    *)
(* dimensionless factor (rate, ratio, logarithm) an integer count of       *)
(* millionths (FX per 1).  Products and quotients are truncated.  The      *)
(* model therefore follows the code's arithmetic up to about 1e-6          *)
(* relative error and does not reproduce IEEE-754 rounding noise.          *)
(* A nullable number is a sequence: <<>> is null, <<n>> the number n.      *)
(***************************************************************************)
EXTENDS Integers, Sequences, FiniteSets, TLC

MU == 10^3
FX == 10^6

Abs(x) == IF x < 0 THEN -x ELSE x

Sgn(x) == IF x < 0 THEN -1 ELSE 1

Min(a, b) == IF a < b THEN a ELSE b

Max(a, b) == IF a > b THEN a ELSE b

\* floor(a*b / 10^6) for a, b >= 0, computed on base-1000 limbs so that no
\* intermediate value leaves the 32-bit range.
MulAbs(a, b) ==
    LET ah == a \div 1000
        al == a % 1000
        bh == b \div 1000
        bl == b % 1000
    IN  ah * bh + ((ah * bl + al * bh + ((al * bl) \div 1000)) \div 1000)

\* a * f where f is a factor: the JavaScript operator * .
MulF(a, f) == Sgn(a) * Sgn(f) * MulAbs(Abs(a), Abs(f))

\* Long division: the quotient q (so far) and remainder r of a dividend by b,
\* extended by the digit bases in ds.
RECURSIVE LongDiv(_, _, _, _)
LongDiv(q, r, b, ds) ==
    IF ds = <<>> THEN q
    ELSE LongDiv(q * Head(ds) + ((r * Head(ds)) \div b), (r * Head(ds)) % b, b, Tail(ds))

\* floor(a * 10^6 / b) for a >= 0, b > 0   (10^6 = 5^6 * 2^6).
DivAbs(a, b) == LongDiv(a \div b, a % b, b, <<5, 5, 5, 5, 5, 5, 2, 2, 2, 2, 2, 2>>)

\* a / b as a factor (or money / factor as money): the JavaScript operator / .
DivF(a, b) == Sgn(a) * Sgn(b) * DivAbs(Abs(a), Abs(b))

\* Math.log10, normalisation: a / b is brought into [1, 10) and the decades
\* counted in e.
RECURSIVE Log10Norm(_, _, _)
Log10Norm(a, b, e) ==
    IF a >= 10 * b THEN Log10Norm(a, b * 10, e + 1)
    ELSE IF a < b THEN Log10Norm(a * 10, b, e - 1)
    ELSE <<a, b, e>>

\* Math.log10, fraction: n binary digits of log10(y) for y in [1, 10), by
\* repeated squaring; acc collects the digits.
RECURSIVE Log10Bits(_, _, _)
Log10Bits(y, n, acc) ==
    IF n = 0 THEN acc
    ELSE LET y2 == MulAbs(y, y)
         IN  IF y2 >= 10 * FX THEN Log10Bits(y2 \div 10, n - 1, 2 * acc + 1)
             ELSE Log10Bits(y2, n - 1, 2 * acc)

\* Math.log10(a / b) for a, b > 0 of one scale.  The quotient is normalised
\* before it is formed, so that it keeps six decimals whatever its size.
\* 20 binary digits; 953674 = 10^12 / 2^20.
Log10Ratio(a, b) ==
    LET ne == Log10Norm(a, b, 0)
    IN  ne[3] * FX + MulAbs(Log10Bits(DivAbs(ne[1], ne[2]), 20, 0), 953674)

\* Taylor series of e^f for f in [0, 1): sum of f^k / k! for k = i .. 12,
\* t being the term for k = i - 1.
RECURSIVE ExpSeries(_, _, _)
ExpSeries(f, i, t) ==
    IF i > 12 \/ t = 0 THEN 0
    ELSE LET ti == MulAbs(t, f) \div i
         IN  ti + ExpSeries(f, i + 1, ti)

\* y * e^n for an integer n  (e = 2.718282, 1/e = 0.367879).
RECURSIVE ExpScale(_, _)
ExpScale(y, n) ==
    IF n = 0 THEN y
    ELSE IF n > 0 THEN ExpScale(MulAbs(y, 2718282), n - 1)
    ELSE ExpScale(MulAbs(y, 367879), n + 1)

\* Math.exp(x) for a factor x.
ExpF(x) ==
    LET n == x \div FX
        f == x - n * FX
    IN  ExpScale(FX + ExpSeries(f, 1, FX), n)

\* Math.pow(a / b, e) for a, b > 0 of one scale and a factor e:
\* exp(e * ln(10) * log10(a / b)), ln(10) = 2.302585.
PowRatio(a, b, e) == ExpF(MulF(MulF(e, 2302585), Log10Ratio(a, b)))

(***************************************************************************)
(* Strings.  A string is a TLA+ string; its i-th character is              *)
(* SubSeq(s, i, i).                                                        *)
(***************************************************************************)
CharAt(s, i) == SubSeq(s, i, i)

\* The white space String.prototype.trim removes (of the characters the
\* inputs are built from).
IsSpace(c) == c \in {" ", "\t", "\n", "\r"}

IsDigit(c) == c \in {"0", "1", "2", "3", "4", "5", "6", "7", "8", "9"}

RECURSIVE TrimStart(_)
TrimStart(s) ==
    IF Len(s) > 0 /\ IsSpace(CharAt(s, 1)) THEN TrimStart(SubSeq(s, 2, Len(s))) ELSE s

RECURSIVE TrimEnd(_)
TrimEnd(s) ==
    IF Len(s) > 0 /\ IsSpace(CharAt(s, Len(s))) THEN TrimEnd(SubSeq(s, 1, Len(s) - 1)) ELSE s

\* String.prototype.trim
Trim(s) == TrimEnd(TrimStart(s))

\* The upper-case letters and what toLowerCase makes of them.
LowerMap ==
    [ A |-> "a", B |-> "b", C |-> "c", D |-> "d", E |-> "e", F |-> "f", G |-> "g",
      H |-> "h", I |-> "i", J |-> "j", K |-> "k", L |-> "l", M |-> "m", N |-> "n",
      O |-> "o", P |-> "p", Q |-> "q", R |-> "r", S |-> "s", T |-> "t", U |-> "u",
      V |-> "v", W |-> "w", X |-> "x", Y |-> "y", Z |-> "z" ]

UpperSet ==
    { "A", "B", "C", "D", "E", "F", "G", "H", "I", "J", "K", "L", "M",
      "N", "O", "P", "Q", "R", "S", "T", "U", "V", "W", "X", "Y", "Z" }

LowerChar(c) == IF c \in UpperSet THEN LowerMap[c] ELSE c

\* String.prototype.toLowerCase: every character mapped, the two halves of
\* the string one after the other.
RECURSIVE ToLower(_)
ToLower(s) ==
    IF Len(s) = 0 THEN ""
    ELSE IF Len(s) = 1 THEN LowerChar(s)
    ELSE ToLower(SubSeq(s, 1, Len(s) \div 2)) \o ToLower(SubSeq(s, Len(s) \div 2 + 1, Len(s)))

\* The position of the first character of s at or after i that is in the
\* set C; Len(s) + 1 when there is none.
FirstIn(s, i, C) ==
    IF \E j \in i..Len(s) : CharAt(s, j) \in C
    THEN CHOOSE j \in i..Len(s) :
             CharAt(s, j) \in C /\ \A h \in i..(j - 1) : CharAt(s, h) \notin C
    ELSE Len(s) + 1

\* Index of the first occurrence of the character c in s at or after i,
\* 0 when there is none.
IndexOfChar(s, c, i) ==
    LET j == FirstIn(s, i, {c}) IN IF j > Len(s) THEN 0 ELSE j

\* String.prototype.split(c) for a one-character separator c.
RECURSIVE Split(_, _)
Split(s, c) ==
    LET i == IndexOfChar(s, c, 1)
    IN  IF i = 0 THEN <<s>>
        ELSE <<SubSeq(s, 1, i - 1)>> \o Split(SubSeq(s, i + 1, Len(s)), c)

\* Array.prototype.includes
Includes(arr, x) == \E i \in 1..Len(arr) : arr[i] = x

\* arr.map(x => x.trim())
MapTrim(arr) == [i \in 1..Len(arr) |-> Trim(arr[i])]

\* Array.prototype.filter(Boolean) on strings: the non-empty ones, in order.
RECURSIVE FilterNonEmpty(_)
FilterNonEmpty(arr) ==
    IF arr = <<>> THEN <<>>
    ELSE IF Head(arr) = "" THEN FilterNonEmpty(Tail(arr))
    ELSE <<Head(arr)>> \o FilterNonEmpty(Tail(arr))

\* Array.prototype.join
RECURSIVE Join(_, _)
Join(arr, sep) ==
    IF arr = <<>> THEN ""
    ELSE IF Len(arr) = 1 THEN arr[1]
    ELSE arr[1] \o sep \o Join(Tail(arr), sep)

(***************************************************************************)
(* Tags                                                                    *)
(***************************************************************************)
normTag(t) == Trim(ToLower(t))

\* arr.map(normTag)
MapNormTag(arr) == [i \in 1..Len(arr) |-> normTag(arr[i])]

parseTags(tagsCell) ==
    LET raw == Trim(tagsCell)
    IN  IF raw = "" THEN <<>> ELSE FilterNonEmpty(MapTrim(Split(raw, ",")))

\* hasUsedGateway with the slip of leaving out one of the two gateway tags.
hasUsedGateway_defectonly(tagsArr) ==
    LET lower == MapNormTag(tagsArr)
    IN  Includes(lower, "preowned / defect")

hasUsedGateway(tagsArr) ==
    LET lower == MapNormTag(tagsArr)
    IN  Includes(lower, "preowned / defect") \/ Includes(lower, "preloved")

\* hasCnfdnt with the slip of comparing the tags as they are written.
hasCnfdnt_exact(tagsArr) == Includes(tagsArr, "cnfdnt")

hasCnfdnt(tagsArr) ==
    LET lower == MapNormTag(tagsArr)
    IN  Includes(lower, "cnfdnt")

TYPE_TAGS == <<"used", "standard", "low-margin">>

(***************************************************************************)
(* Classification and pricing (part_002: no VAT)                           *)
(***************************************************************************)
\* The classifier's constants: rates as factors, amounts as money.
ClassifierConst ==
    [d_max |-> 510000, ship_cost |-> 12900, cust_ship |-> 8500,
     aff_rate |-> 120000, other_rate |-> 45500]

\* MarginG with the slip of taking the sale price off the cost.
MarginG_swapped(M, C) ==
    LET K == ClassifierConst
        P_sale_max == MulF(M * 1000, FX - K.d_max)
        affiliate_fee == MulF(P_sale_max, K.aff_rate)
        gross_with_ship == P_sale_max + K.cust_ship * 1000
        other_fee == MulF(gross_with_ship, K.other_rate)
    IN  C * 1000 - P_sale_max - K.ship_cost * 1000 - affiliate_fee - other_fee

\* The margin G of determineTypeArigato, in millionths of a currency unit
\* (M, C in money units), so that its sign is decided exactly.
MarginG(M, C) ==
    LET K == ClassifierConst
        P_sale_max == MulF(M * 1000, FX - K.d_max)
        affiliate_fee == MulF(P_sale_max, K.aff_rate)
        gross_with_ship == P_sale_max + K.cust_ship * 1000
        other_fee == MulF(gross_with_ship, K.other_rate)
    IN  P_sale_max - C * 1000 - K.ship_cost * 1000 - affiliate_fee - other_fee

\* determineTypeArigato with the slip of looking at the gateway tags first.
determineTypeArigato_tagfirst(M, C, tagsArr) ==
    IF hasUsedGateway(tagsArr) THEN "used"
    ELSE IF ~(M > 0) \/ ~(C > 0) THEN "skip"
    ELSE IF MarginG(M, C) >= 0 THEN "standard"
    ELSE "low-margin"

determineTypeArigato(M, C, tagsArr) ==
    IF ~(M > 0) \/ ~(C > 0) THEN "skip"
    ELSE IF hasUsedGateway(tagsArr) THEN "used"
    ELSE IF MarginG(M, C) >= 0 THEN "standard"
    ELSE "low-margin"

clamp(x, a, b) == Max(a, Min(b, x))

\* Math.round(x * 100) / 100 on money: to the nearest cent, halves up.
round2(x) == ((x + 5) \div 10) * 10

\* The pricing constants: U (used), LM (low-margin), STD (standard).
PricingU ==
    [alpha |-> 250000, beta |-> 1200000, gamma |-> 200000,
     N |-> 35000, K0 |-> 200000, k |-> 200000]

PricingLM ==
    [alpha |-> 400000, beta |-> 900000, gamma |-> 0,
     N |-> 35000, K0 |-> 500000, k |-> 300000]

PricingSTD ==
    [d_max |-> 510000, mu0 |-> 750000, beta_disc |-> 0, gamma_M |-> 230000,
     rho |-> 400000, d_ref |-> 910000, M_ref |-> 25000000]

\* The cost-plus branch of computePricing (used, low-margin): price_raw.
PriceRaw(M, C, P) ==
    LET sM == DivF(FX, FX + ExpF(DivF(M - P.K0, P.k)))
        log10_MC == Log10Ratio(M, C)
    IN  MulF(C, FX + P.alpha + MulF(P.beta, log10_MC) + MulF(P.gamma, sM)) + P.N

\* The hidden-price branch of computePricing (standard): P_hidden_raw, for
\* the constants STD.
HiddenRaw(M, C, STD) ==
    LET d == clamp(FX - DivF(C, M), 0, 990000)
        L_d == Log10Ratio(FX, FX - d)
        L_dref == Log10Ratio(FX, FX - STD.d_ref)
        mu_d == STD.mu0 + MulF(STD.beta_disc, L_d - L_dref)
        m_shape == PowRatio(M, STD.M_ref, -STD.gamma_M)
        A_M == DivF(MulF(M, m_shape), FX - STD.d_max)
        B_d == MulF(MulF(FX - STD.rho, FX + mu_d), FX - d)
               + MulF(MulF(STD.rho, FX + STD.mu0), FX - STD.d_ref)
    IN  MulF(A_M, B_d)

PHiddenRaw(M, C) == HiddenRaw(M, C, PricingSTD)

computePricing(M, C, type) ==
    IF ~(M > 0) \/ ~(C > 0) THEN [ok |-> FALSE, price_new |-> 0, as_low_as |-> 0]
    ELSE IF type = "used" \/ type = "low-margin"
    THEN LET P == IF type = "used" THEN PricingU ELSE PricingLM
             price_new == Min(M, PriceRaw(M, C, P))
         IN  [ok |-> TRUE, price_new |-> round2(price_new), as_low_as |-> round2(0)]
    ELSE IF type = "standard"
    THEN LET P_hidden == Min(M, PHiddenRaw(M, C))
             P_sale_min == MulF(P_hidden, FX - PricingSTD.d_max)
         IN  [ok |-> TRUE, price_new |-> round2(P_hidden), as_low_as |-> round2(P_sale_min)]
    ELSE [ok |-> TRUE, price_new |-> round2(M), as_low_as |-> round2(0)]

(***************************************************************************)
(* CSV helpers                                                             *)
(***************************************************************************)
\* Number of occurrences of the character c in s.
CountChar(s, c) == Cardinality({i \in 1..Len(s) : CharAt(s, i) = c})

detectDelimiter(line) ==
    IF CountChar(line, ";") > CountChar(line, ",") THEN ";" ELSE ","

\* The byte-order mark U+FEFF is written "\f" in the modelled inputs, which
\* use that character for nothing else.
BOM == "\f"

stripBom(s) == IF Len(s) > 0 /\ CharAt(s, 1) = BOM THEN SubSeq(s, 2, Len(s)) ELSE s

\* s.replace(/^"|"$/g, ""): one leading and one trailing quote are removed.
StripQuotes(s) ==
    LET a == IF Len(s) > 0 /\ CharAt(s, 1) = "\"" THEN SubSeq(s, 2, Len(s)) ELSE s
    IN  IF Len(a) > 0 /\ CharAt(a, Len(a)) = "\"" THEN SubSeq(a, 1, Len(a) - 1) ELSE a

\* The loop of parseCsvLine from character i on: out are the finished cells,
\* cur the cell being read, inQ the quote state.  The characters up to the
\* next quote (or, outside quotes, the next delimiter) all take the last
\* branch of the loop body, cur += ch, and are added to cur in one step.
RECURSIVE ParseCsvFrom(_, _, _, _, _, _)
ParseCsvFrom(line, delim, i, out, cur, inQ) ==
    LET j == FirstIn(line, i, IF inQ THEN {"\""} ELSE {"\"", delim})
        cur2 == cur \o SubSeq(line, i, j - 1)
    IN  IF j > Len(line) THEN Append(out, cur2)
        ELSE IF CharAt(line, j) = "\""
        THEN IF inQ /\ j + 1 <= Len(line) /\ CharAt(line, j + 1) = "\""
             THEN ParseCsvFrom(line, delim, j + 2, out, cur2 \o "\"", inQ)
             ELSE ParseCsvFrom(line, delim, j + 1, out, cur2, ~inQ)
        ELSE ParseCsvFrom(line, delim, j + 1, Append(out, cur2), "", inQ)

parseCsvLine(line, delim) == ParseCsvFrom(line, delim, 1, <<>>, "", FALSE)

normHeader(h) == ToLower(Trim(stripBom(h)))

\* QuoteStateFrom with the slip of stepping over one character, not two, at
\* an escaped quote.
RECURSIVE QuoteStateFrom_step(_, _, _)
QuoteStateFrom_step(s, i, inQ) ==
    LET j == FirstIn(s, i, {"\""})
    IN  IF j > Len(s) THEN inQ
        ELSE IF inQ /\ j + 1 <= Len(s) /\ CharAt(s, j + 1) = "\""
        THEN QuoteStateFrom_step(s, j + 1, inQ)
        ELSE QuoteStateFrom_step(s, j + 1, ~inQ)

\* The loop of isCsvRecordComplete from character i on; its result is the
\* final quote state inQ.
\* The characters up to the next quote leave inQ as it is and are passed
\* in one step.
RECURSIVE QuoteStateFrom(_, _, _)
QuoteStateFrom(s, i, inQ) ==
    LET j == FirstIn(s, i, {"\""})
    IN  IF j > Len(s) THEN inQ
        ELSE IF inQ /\ j + 1 <= Len(s) /\ CharAt(s, j + 1) = "\""
        THEN QuoteStateFrom(s, j + 2, inQ)
        ELSE QuoteStateFrom(s, j + 1, ~inQ)

isCsvRecordComplete(s) == ~QuoteStateFrom(s, 1, FALSE)

\* /^\d+$/ on a string
AllDigits(s) == Len(s) > 0 /\ \A i \in 1..Len(s) : IsDigit(CharAt(s, i))

\* isNumericId with the slip of accepting any non-empty id.
isNumericId_any(s) == Trim(s) # ""

isNumericId(s) == AllDigits(Trim(s))

(***************************************************************************)
(* Numbers and their text                                                  *)
(***************************************************************************)
\* The value of a string of decimal digits ("" is 0).
RECURSIVE DigitsVal(_)
DigitsVal(s) ==
    IF Len(s) = 0 THEN 0
    ELSE 10 * DigitsVal(SubSeq(s, 1, Len(s) - 1))
         + (CHOOSE d \in 0..9 : CharAt("0123456789", d + 1) = CharAt(s, Len(s)))

\* The fraction digits f as thousandths: the first three digits, padded.
FracVal(f) == DigitsVal(SubSeq(f \o "000", 1, 3))

\* s.replace(",", "."): the first comma becomes a point.
ReplaceFirstComma(s) ==
    LET i == IndexOfChar(s, ",", 1)
    IN  IF i = 0 THEN s ELSE SubSeq(s, 1, i - 1) \o "." \o SubSeq(s, i + 1, Len(s))

\* Number(s) for an unsigned decimal literal body: digits, with at most one
\* point; <<>> is NaN.
UnsignedNumber(b) ==
    LET i == IndexOfChar(b, ".", 1)
        ip == IF i = 0 THEN b ELSE SubSeq(b, 1, i - 1)
        fp == IF i = 0 THEN "" ELSE SubSeq(b, i + 1, Len(b))
        digitsOnly(x) == \A j \in 1..Len(x) : IsDigit(CharAt(x, j))
    IN  IF digitsOnly(ip) /\ digitsOnly(fp) /\ Len(ip) + Len(fp) > 0
        THEN <<DigitsVal(ip) * MU + FracVal(fp)>>
        ELSE <<>>

\* Number(s): white space is trimmed, the empty string is 0, a decimal
\* literal with an optional sign is its value (money scale, further decimals
\* cut), anything else is NaN, written <<>>.  Exponents, hexadecimal
\* literals and Infinity are not modelled: the inputs hold none.
NumberOfString(s) ==
    LET t == Trim(s)
        neg == Len(t) > 0 /\ CharAt(t, 1) = "-"
        signed == Len(t) > 0 /\ CharAt(t, 1) \in {"-", "+"}
        u == UnsignedNumber(IF signed THEN SubSeq(t, 2, Len(t)) ELSE t)
    IN  IF t = "" THEN <<0>>
        ELSE IF u = <<>> THEN <<>>
        ELSE IF neg THEN <<-u[1]>> ELSE u

\* toNumberOrNull on a string (a cell); null is <<>>.
toNumberOrNull(x) == NumberOfString(ReplaceFirstComma(x))

\* toNumberOrNull on a number or null n: String(n ?? "") is parsed back, so
\* null becomes 0 and a number stays itself.
toNumberOrNullNum(n) == IF n = <<>> THEN <<0>> ELSE n

\* approxEqualMoney with the slip of comparing with <= .
approxEqualMoney_le(a, b) ==
    LET na == toNumberOrNullNum(a)
        nb == toNumberOrNullNum(b)
    IN  Abs(na[1] - nb[1]) <= 5

approxEqualMoney(a, b) ==
    LET na == toNumberOrNullNum(a)
        nb == toNumberOrNullNum(b)
    IN  Abs(na[1] - nb[1]) < 5

\* The decimal digits of a natural number.
RECURSIVE DigitsOf(_)
DigitsOf(n) ==
    IF n < 10 THEN CharAt("0123456789", n + 1)
    ELSE DigitsOf(n \div 10) \o CharAt("0123456789", (n % 10) + 1)

\* The fraction digits of String(n): thousandths without trailing zeros.
FracDigits(m) ==
    IF m = 0 THEN ""
    ELSE IF m % 100 = 0 THEN "." \o DigitsOf(m \div 100)
    ELSE IF m % 10 = 0 THEN "." \o DigitsOf(m \div 100) \o DigitsOf((m \div 10) % 10)
    ELSE "." \o DigitsOf(m \div 100) \o DigitsOf((m \div 10) % 10) \o DigitsOf(m % 10)

\* String(n) for a number n: the shortest decimal text.
StringOfNumber(n) ==
    (IF n < 0 THEN "-" ELSE "") \o DigitsOf(Abs(n) \div MU) \o FracDigits(Abs(n) % MU)

(***************************************************************************)
(* State of one run of main()                                              *)
(***************************************************************************)
VARIABLES
    input,            \* the physical lines readline yields, in order
    lineNo,           \* number of lines consumed by the read loop
    pending,          \* the buffer of an unfinished record
    header,           \* the header cells; <<>> while header is null
    delim,            \* the detected delimiter
    idx,              \* column indices (1-based; 0 is "not found")
    metafieldColName, \* <<>> while null, else <<name>>
    products,         \* the Map of product aggregates, in insertion order
    tested,           \* history: each buffer tested for completeness, the verdict, the line
    records,          \* history: the records handed to parseCsvLine
    rowLog,           \* history: per data record, its product-id cell and the outcome
    pc,               \* "read", "decide", "write", "done", "aborted"
    error,            \* the fatal error thrown, "" while none
    k,                \* number of products the decision loop has handled
    previewFull, previewOnly,
    importOnlyChangesRows, importFullRows,
    changeItems,
    written,          \* the files written so far, in order
    run,              \* 1 in a first run, 2 in a re-run on the applied output
    applied,          \* the instruction rows of the first run applied before a re-run
    call              \* a direct call of one function: its name, arguments, result

vars ==
    <<input, lineNo, pending, header, delim, idx, metafieldColName, products,
      tested, records, rowLog, pc, error, k, previewFull, previewOnly,
      importOnlyChangesRows, importFullRows, changeItems, written, run, applied, call>>

readVars ==
    <<lineNo, pending, header, delim, idx, metafieldColName, products, tested, records, rowLog>>

harnessVars == <<run, applied, call>>

decideVars == <<k, previewFull, previewOnly, importOnlyChangesRows, importFullRows, changeItems>>

(***************************************************************************)
(* Record assembler: the read loop of main()                               *)
(***************************************************************************)
\* s.startsWith(prefix)
StartsWith(s, prefix) == Len(s) >= Len(prefix) /\ SubSeq(s, 1, Len(prefix)) = prefix

\* Array.prototype.indexOf, 1-based; 0 when x does not occur.
IndexOf(arr, x) ==
    IF Includes(arr, x) THEN CHOOSE i \in 1..Len(arr) : arr[i] = x /\ \A j \in 1..(i - 1) : arr[j] # x
    ELSE 0

\* cells[i] ?? ""
Cell(cells, i) == IF i >= 1 /\ i <= Len(cells) THEN cells[i] ELSE ""

\* The header cells of a record: parsed, BOM and outer quotes stripped.
HeaderOf(record, d) ==
    LET raw == parseCsvLine(record, d)
    IN  [i \in 1..Len(raw) |-> StripQuotes(stripBom(raw[i]))]

HeaderNorm(h) == [i \in 1..Len(h) |-> normHeader(h[i])]

MetafieldPrefix == "metafield: spotted.as_low_as"

\* The last header cell whose normalised name (in headerNorm) starts with
\* the metafield prefix, as <<name>>; <<>> when there is none.
MetafieldCol(h, headerNorm) ==
    LET hits == {i \in 1..Len(h) : StartsWith(headerNorm[i], MetafieldPrefix)}
    IN  IF hits = {} THEN <<>> ELSE <<h[CHOOSE i \in hits : \A j \in hits : j <= i]>>

mustHave ==
    <<"id", "tags", "status", "variant id", "variant position", "variant price",
      "variant compare at price", "variant cost">>

\* MissingColumns with the slip of not looking for the last required column.
MissingColumns_short(headerNorm) ==
    {i \in 1..(Len(mustHave) - 1) : ~Includes(headerNorm, normHeader(mustHave[i]))}

\* The required columns missing from a header with the normalised names
\* headerNorm.
MissingColumns(headerNorm) ==
    {i \in 1..Len(mustHave) : ~Includes(headerNorm, normHeader(mustHave[i]))}

\* idx, for the normalised names hn and the metafield column mf.
ColumnIndex(hn, mf) ==
    [ID |-> IndexOf(hn, normHeader("ID")),
     HANDLE |-> IndexOf(hn, "handle"),
     TITLE |-> IndexOf(hn, "title"),
     TAGS |-> IndexOf(hn, "tags"),
     STATUS |-> IndexOf(hn, "status"),
     VARIANT_ID |-> IndexOf(hn, normHeader("Variant ID")),
     VARIANT_POS |-> IndexOf(hn, normHeader("Variant Position")),
     VARIANT_PRICE |-> IndexOf(hn, normHeader("Variant Price")),
     VARIANT_COMPARE |-> IndexOf(hn, normHeader("Variant Compare At Price")),
     VARIANT_COST |-> IndexOf(hn, normHeader("Variant Cost")),
     MF_ASLOWAS |-> IF mf = <<>> THEN 0 ELSE IndexOf(hn, normHeader(mf[1]))]

NoIndex ==
    [ID |-> 0, HANDLE |-> 0, TITLE |-> 0, TAGS |-> 0, STATUS |-> 0, VARIANT_ID |-> 0,
     VARIANT_POS |-> 0, VARIANT_PRICE |-> 0, VARIANT_COMPARE |-> 0, VARIANT_COST |-> 0,
     MF_ASLOWAS |-> 0]

\* x ?? 999999 for the variant position.
POS_SENTINEL == 999999 * MU

\* The fields main() reads from the cells of one data record.
RowOf(cells, ix) ==
    LET posN == toNumberOrNull(Cell(cells, ix.VARIANT_POS))
    IN  [productId |-> StripQuotes(Trim(Cell(cells, ix.ID))),
         tagsCell |-> Cell(cells, ix.TAGS),
         status |-> StripQuotes(Trim(Cell(cells, ix.STATUS))),
         title |-> StripQuotes(Trim(Cell(cells, ix.TITLE))),
         handle |-> StripQuotes(Trim(Cell(cells, ix.HANDLE))),
         variantId |-> StripQuotes(Trim(Cell(cells, ix.VARIANT_ID))),
         pos |-> IF posN = <<>> THEN POS_SENTINEL ELSE posN[1],
         price |-> toNumberOrNull(Cell(cells, ix.VARIANT_PRICE)),
         compareAt |-> toNumberOrNull(Cell(cells, ix.VARIANT_COMPARE)),
         cost |-> toNumberOrNull(Cell(cells, ix.VARIANT_COST)),
         asLowAsCurrent |-> StripQuotes(Trim(IF ix.MF_ASLOWAS >= 1 THEN Cell(cells, ix.MF_ASLOWAS) ELSE ""))]

\* products.has(id) / the position of id in the Map (0 when absent)
ProductIndex(ps, id) ==
    IF \E i \in 1..Len(ps) : ps[i].productId = id
    THEN CHOOSE i \in 1..Len(ps) : ps[i].productId = id
    ELSE 0

\* Grouping of one row into the Map: a new aggregate on first sight of the
\* id, the variant appended, empty scalar fields filled from this row.
AddRow(ps, r) ==
    LET fresh == [productId |-> r.productId, title |-> r.title, handle |-> r.handle,
                  status |-> r.status, tagsArr |-> parseTags(r.tagsCell),
                  tagsRaw |-> r.tagsCell, asLowAsCurrent |-> r.asLowAsCurrent,
                  variants |-> <<>>]
        ps1 == IF ProductIndex(ps, r.productId) = 0 THEN Append(ps, fresh) ELSE ps
        i == ProductIndex(ps1, r.productId)
        p == ps1[i]
        v == [variantId |-> r.variantId, pos |-> r.pos, price |-> r.price,
              compareAt |-> r.compareAt, cost |-> r.cost]
        fillTags == p.tagsRaw = "" /\ r.tagsCell # ""
    IN  [ps1 EXCEPT ![i] =
            [p EXCEPT !.variants = Append(p.variants, v),
                      !.title = IF p.title = "" /\ r.title # "" THEN r.title ELSE p.title,
                      !.handle = IF p.handle = "" /\ r.handle # "" THEN r.handle ELSE p.handle,
                      !.status = IF p.status = "" /\ r.status # "" THEN r.status ELSE p.status,
                      !.tagsRaw = IF fillTags THEN r.tagsCell ELSE p.tagsRaw,
                      !.tagsArr = IF fillTags THEN parseTags(r.tagsCell) ELSE p.tagsArr,
                      !.asLowAsCurrent = IF p.asLowAsCurrent = "" /\ r.asLowAsCurrent # ""
                                         THEN r.asLowAsCurrent ELSE p.asLowAsCurrent]]

\* The pending buffer after the physical line line0 has been taken.
Accumulate(pend, line0) == IF pend # "" THEN pend \o "\n" \o line0 ELSE line0

\* Throw with the slip of reporting the error and going on.
Throw_goon(msg) == pc' = pc /\ error' = msg

\* throw: the run ends, main().catch exits the process.
Throw(msg) == pc' = "aborted" /\ error' = msg

\* One iteration of the read loop: the next physical line is taken.
ReadLine ==
    /\ pc = "read"
    /\ lineNo < Len(input)
    /\ lineNo' = lineNo + 1
    /\ \E line0 \in {stripBom(input[lineNo + 1])} :
       \E record \in {Accumulate(pending, line0)} :
           IF pending = "" /\ Trim(line0) = ""
           THEN UNCHANGED <<pending, header, delim, idx, metafieldColName, products,
                            tested, records, rowLog, pc, error>>
           ELSE IF ~isCsvRecordComplete(record)
           THEN /\ pending' = record
                /\ tested' = Append(tested, <<record, FALSE, lineNo + 1>>)
                /\ UNCHANGED <<header, delim, idx, metafieldColName, products,
                               records, rowLog, pc, error>>
           ELSE /\ pending' = ""
                /\ tested' = Append(tested, <<record, TRUE, lineNo + 1>>)
                /\ records' = Append(records, record)
                /\ IF header = <<>>
                   THEN \E d \in {detectDelimiter(record)} :
                        \E h \in {HeaderOf(record, d)} :
                        \E headerNorm \in {HeaderNorm(h)} :
                            /\ delim' = d
                            /\ header' = h
                            /\ metafieldColName' = MetafieldCol(h, headerNorm)
                            /\ UNCHANGED <<products, rowLog>>
                            /\ IF MissingColumns(headerNorm) # {}
                               THEN Throw("columns") /\ UNCHANGED idx
                               ELSE /\ idx' = ColumnIndex(headerNorm, MetafieldCol(h, headerNorm))
                                    /\ UNCHANGED <<pc, error>>
                   ELSE \E cells \in {parseCsvLine(record, delim)} :
                        \E r \in {RowOf(cells, idx)} :
                            /\ UNCHANGED <<header, delim, idx, metafieldColName>>
                            /\ IF r.productId = ""
                               THEN /\ rowLog' = Append(rowLog, <<Cell(cells, idx.ID), "skipped">>)
                                    /\ UNCHANGED <<products, pc, error>>
                               ELSE IF ~isNumericId(r.productId)
                               THEN /\ rowLog' = Append(rowLog, <<Cell(cells, idx.ID), "aborted">>)
                                    /\ Throw("id")
                                    /\ UNCHANGED products
                               ELSE /\ rowLog' = Append(rowLog, <<Cell(cells, idx.ID), "grouped">>)
                                    /\ products' = AddRow(products, r)
                                    /\ UNCHANGED <<pc, error>>
    /\ UNCHANGED input
    /\ UNCHANGED harnessVars
    /\ UNCHANGED decideVars
    /\ UNCHANGED written

\* EndOfInput with the slip of not looking at the pending buffer.
EndOfInput_nocheck ==
    /\ pc = "read"
    /\ lineNo = Len(input)
    /\ pc' = "decide" /\ UNCHANGED error
    /\ UNCHANGED <<input, written>>
    /\ UNCHANGED harnessVars
    /\ UNCHANGED readVars
    /\ UNCHANGED decideVars

\* The end of the input: an unfinished record is fatal, otherwise the
\* decision loop starts.
EndOfInput ==
    /\ pc = "read"
    /\ lineNo = Len(input)
    /\ IF pending # "" THEN Throw("quotes") ELSE pc' = "decide" /\ UNCHANGED error
    /\ UNCHANGED <<input, written>>
    /\ UNCHANGED harnessVars
    /\ UNCHANGED readVars
    /\ UNCHANGED decideVars

(***************************************************************************)
(* Tag reconciler                                                          *)
(***************************************************************************)
\* FilterNotType with the slip of comparing the tags as they are written.
RECURSIVE FilterNotType_exact(_)
FilterNotType_exact(cur) ==
    IF cur = <<>> THEN <<>>
    ELSE IF Includes(TYPE_TAGS, Head(cur)) THEN FilterNotType_exact(Tail(cur))
    ELSE <<Head(cur)>> \o FilterNotType_exact(Tail(cur))

\* cur.filter(t => !TYPE_TAGS.includes(normTag(t)))
RECURSIVE FilterNotType(_)
FilterNotType(cur) ==
    IF cur = <<>> THEN <<>>
    ELSE IF Includes(TYPE_TAGS, normTag(Head(cur))) THEN FilterNotType(Tail(cur))
    ELSE <<Head(cur)>> \o FilterNotType(Tail(cur))

\* OtherTypeTags with the slip of listing the desired type tag as well.
RECURSIVE OtherTypeTags_all(_, _, _)
OtherTypeTags_all(curLower, desiredType, i) ==
    IF i > Len(TYPE_TAGS) THEN <<>>
    ELSE (IF Includes(curLower, TYPE_TAGS[i]) THEN <<TYPE_TAGS[i]>> ELSE <<>>)
         \o OtherTypeTags_all(curLower, desiredType, i + 1)

\* The type tags other than desiredType that occur in curLower, in the
\* order of TYPE_TAGS from its i-th element on.
RECURSIVE OtherTypeTags(_, _, _)
OtherTypeTags(curLower, desiredType, i) ==
    IF i > Len(TYPE_TAGS) THEN <<>>
    ELSE (IF TYPE_TAGS[i] # desiredType /\ Includes(curLower, TYPE_TAGS[i])
          THEN <<TYPE_TAGS[i]>> ELSE <<>>)
         \o OtherTypeTags(curLower, desiredType, i + 1)

\* computeTagDiff with the slip of appending the desired tag to the
\* current list instead of the cleaned one.
computeTagDiff_keep(currentTagsArr, desiredType) ==
    LET cur == currentTagsArr
        curLower == MapNormTag(cur)
        tags_to_add == IF ~Includes(curLower, desiredType) THEN <<desiredType>> ELSE <<>>
        tags_to_remove == OtherTypeTags(curLower, desiredType, 1)
    IN  IF ~Includes(TYPE_TAGS, desiredType)
        THEN [desiredTagsArr |-> cur, tags_to_add |-> <<>>, tags_to_remove |-> <<>>,
              doTags |-> FALSE]
        ELSE [desiredTagsArr |-> Append(cur, desiredType),
              tags_to_add |-> tags_to_add,
              tags_to_remove |-> tags_to_remove,
              doTags |-> Len(tags_to_add) > 0 \/ Len(tags_to_remove) > 0]

computeTagDiff(currentTagsArr, desiredType) ==
    LET cur == currentTagsArr
        curLower == MapNormTag(cur)
        tags_to_add == IF ~Includes(curLower, desiredType) THEN <<desiredType>> ELSE <<>>
        tags_to_remove == OtherTypeTags(curLower, desiredType, 1)
        cleaned == FilterNotType(cur)
    IN  IF ~Includes(TYPE_TAGS, desiredType)
        THEN [desiredTagsArr |-> cur, tags_to_add |-> <<>>, tags_to_remove |-> <<>>,
              doTags |-> FALSE]
        ELSE [desiredTagsArr |-> IF ~Includes(MapNormTag(cleaned), desiredType)
                                 THEN Append(cleaned, desiredType) ELSE cleaned,
              tags_to_add |-> tags_to_add,
              tags_to_remove |-> tags_to_remove,
              doTags |-> Len(tags_to_add) > 0 \/ Len(tags_to_remove) > 0]

(***************************************************************************)
(* Diff engine: one iteration of the decision loop of main()               *)
(***************************************************************************)
\* ReduceBase with the slip of letting a later variant win a tie.
RECURSIVE ReduceBase_last(_, _, _)
ReduceBase_last(variants, i, best) ==
    IF i > Len(variants) THEN best
    ELSE ReduceBase_last(variants, i + 1,
                         IF best = 0 \/ variants[i].pos <= variants[best].pos THEN i ELSE best)

\* p.variants.reduce((best, v) => (!best || v.pos < best.pos) ? v : best, null)
RECURSIVE ReduceBase(_, _, _)
ReduceBase(variants, i, best) ==
    IF i > Len(variants) THEN best
    ELSE ReduceBase(variants, i + 1,
                    IF best = 0 \/ variants[i].pos < variants[best].pos THEN i ELSE best)

\* The index of the base variant in p.variants.
BaseIndex(variants) == ReduceBase(variants, 1, 0)

\* String(x) for a number or null.
StringOfNullable(x) == IF x = <<>> THEN "null" ELSE StringOfNumber(x[1])

\* x ?? "" as written to a CSV cell, for a number or null.
CellOfNullable(x) == IF x = <<>> THEN "" ELSE StringOfNumber(x[1])

\* VariantsToUpdate with the slip of not asking for a variant id.
RECURSIVE VariantsToUpdate_noid(_, _)
VariantsToUpdate_noid(variants, desiredPriceNew) ==
    IF variants = <<>> THEN <<>>
    ELSE (IF ~approxEqualMoney(Head(variants).price, desiredPriceNew)
          THEN <<Head(variants).variantId>> ELSE <<>>)
         \o VariantsToUpdate_noid(Tail(variants), desiredPriceNew)

\* The ids of the variants whose price is to be updated, in variant order.
RECURSIVE VariantsToUpdate(_, _)
VariantsToUpdate(variants, desiredPriceNew) ==
    IF variants = <<>> THEN <<>>
    ELSE (IF Head(variants).variantId # "" /\ ~approxEqualMoney(Head(variants).price, desiredPriceNew)
          THEN <<Head(variants).variantId>> ELSE <<>>)
         \o VariantsToUpdate(Tail(variants), desiredPriceNew)

\* DecideWithPricing with the slip of leaving the advertised-price decision
\* out of needsChange.
DecideWithPricing_nometafield(p, base, msrpGross, M, C, missingMC, desiredType, pricing, tagDiff, desiredPriceNew, desiredAsLowAs, currentMf) ==
    LET variantsToUpdate == IF ~missingMC /\ desiredPriceNew # <<>>
                            THEN VariantsToUpdate(p.variants, desiredPriceNew) ELSE <<>>
        doDraft == missingMC /\ ToLower(p.status) # "draft"
        doMetafield == /\ ~missingMC
                       /\ desiredType = "standard"
                       /\ desiredAsLowAs # <<>>
                       /\ ~(currentMf # <<>> /\ approxEqualMoney(currentMf, desiredAsLowAs))
    IN  [base |-> base, msrpGross |-> msrpGross, M |-> M, C |-> C, missingMC |-> missingMC,
         doDraft |-> doDraft, desiredType |-> desiredType, pricing |-> pricing,
         desiredPriceNew |-> desiredPriceNew, desiredAsLowAs |-> desiredAsLowAs,
         tagDiff |-> tagDiff, variantsToUpdate |-> variantsToUpdate,
         doPrice |-> Len(variantsToUpdate) > 0,
         doMetafield |-> doMetafield,
         needsChange |-> doDraft \/ tagDiff.doTags \/ Len(variantsToUpdate) > 0,
         primaryVariantId |-> IF base.variantId # "" THEN base.variantId
                              ELSE p.variants[1].variantId]

\* DecideWithPricing with the slip of comparing the status as it is written.
DecideWithPricing_casesensitive(p, base, msrpGross, M, C, missingMC, desiredType, pricing, tagDiff, desiredPriceNew, desiredAsLowAs, currentMf) ==
    LET variantsToUpdate == IF ~missingMC /\ desiredPriceNew # <<>>
                            THEN VariantsToUpdate(p.variants, desiredPriceNew) ELSE <<>>
        doDraft == missingMC /\ p.status # "draft"
        doMetafield == /\ ~missingMC
                       /\ desiredType = "standard"
                       /\ desiredAsLowAs # <<>>
                       /\ ~(currentMf # <<>> /\ approxEqualMoney(currentMf, desiredAsLowAs))
    IN  [base |-> base, msrpGross |-> msrpGross, M |-> M, C |-> C, missingMC |-> missingMC,
         doDraft |-> doDraft, desiredType |-> desiredType, pricing |-> pricing,
         desiredPriceNew |-> desiredPriceNew, desiredAsLowAs |-> desiredAsLowAs,
         tagDiff |-> tagDiff, variantsToUpdate |-> variantsToUpdate,
         doPrice |-> Len(variantsToUpdate) > 0,
         doMetafield |-> doMetafield,
         needsChange |-> doDraft \/ tagDiff.doTags \/ Len(variantsToUpdate) > 0 \/ doMetafield,
         primaryVariantId |-> IF base.variantId # "" THEN base.variantId
                              ELSE p.variants[1].variantId]

\* The loop body of the decision loop, in four steps; each step hands the
\* values it derived to the next.
\* Step 4: price, advertised-from and needsChange, from the pricing result
\* and the tag diff.
DecideWithPricing(p, base, msrpGross, M, C, missingMC, desiredType, pricing, tagDiff, desiredPriceNew, desiredAsLowAs, currentMf) ==
    LET variantsToUpdate == IF ~missingMC /\ desiredPriceNew # <<>>
                            THEN VariantsToUpdate(p.variants, desiredPriceNew) ELSE <<>>
        doDraft == missingMC /\ ToLower(p.status) # "draft"
        doMetafield == /\ ~missingMC
                       /\ desiredType = "standard"
                       /\ desiredAsLowAs # <<>>
                       /\ ~(currentMf # <<>> /\ approxEqualMoney(currentMf, desiredAsLowAs))
    IN  [base |-> base, msrpGross |-> msrpGross, M |-> M, C |-> C, missingMC |-> missingMC,
         doDraft |-> doDraft, desiredType |-> desiredType, pricing |-> pricing,
         desiredPriceNew |-> desiredPriceNew, desiredAsLowAs |-> desiredAsLowAs,
         tagDiff |-> tagDiff, variantsToUpdate |-> variantsToUpdate,
         doPrice |-> Len(variantsToUpdate) > 0,
         doMetafield |-> doMetafield,
         needsChange |-> doDraft \/ tagDiff.doTags \/ Len(variantsToUpdate) > 0 \/ doMetafield,
         primaryVariantId |-> IF base.variantId # "" THEN base.variantId
                              ELSE p.variants[1].variantId]

\* Step 3: desiredPriceNew and desiredAsLowAs, from the pricing result.
DecideWithType(p, base, msrpGross, M, C, missingMC, desiredType, pricing, tagDiff) ==
    DecideWithPricing(p, base, msrpGross, M, C, missingMC, desiredType, pricing, tagDiff,
        IF pricing.ok THEN <<pricing.price_new>> ELSE <<>>,
        IF pricing.ok /\ desiredType = "standard" /\ pricing.as_low_as > 0
        THEN <<pricing.as_low_as>> ELSE <<>>,
        toNumberOrNull(p.asLowAsCurrent))

\* Step 2: the regime, then its pricing and its tag diff.
DecideWithMC(p, base, msrpGross, M, C, missingMC, desiredType) ==
    DecideWithType(p, base, msrpGross, M, C, missingMC, desiredType,
        IF ~missingMC /\ Includes(TYPE_TAGS, desiredType)
        THEN computePricing(M, C, desiredType)
        ELSE [ok |-> FALSE, price_new |-> 0, as_low_as |-> 0],
        IF ~missingMC /\ Includes(TYPE_TAGS, desiredType)
        THEN computeTagDiff(p.tagsArr, desiredType)
        ELSE [desiredTagsArr |-> p.tagsArr, tags_to_add |-> <<>>,
              tags_to_remove |-> <<>>, doTags |-> FALSE])

\* Step 1: M and C of the base variant.
DecideWithBase(p, base, msrpGross, M, C) ==
    DecideWithMC(p, base, msrpGross, M, C, ~(M > 0 /\ C > 0),
        IF ~(M > 0 /\ C > 0) THEN "skip" ELSE determineTypeArigato(M, C, p.tagsArr))

\* base?.compareAt ?? 0
MsrpGross(base) == IF base.compareAt = <<>> THEN 0 ELSE base.compareAt[1]

\* Everything the loop body derives for the product p before it builds rows.
Decide(p) ==
    DecideWithBase(p, p.variants[BaseIndex(p.variants)],
        MsrpGross(p.variants[BaseIndex(p.variants)]),
        IF MsrpGross(p.variants[BaseIndex(p.variants)]) > 0
        THEN MsrpGross(p.variants[BaseIndex(p.variants)]) ELSE 0,
        IF p.variants[BaseIndex(p.variants)].cost = <<>> THEN 0
        ELSE p.variants[BaseIndex(p.variants)].cost[1])

\* x ? round2(x) : "" as written to a CSV cell.
RoundedCell(x) == IF x # 0 THEN StringOfNumber(round2(x)) ELSE ""

\* The preview row of a product handled by the decisions d.
PreviewRow(p, d) ==
    [productId |-> p.productId, title |-> p.title, handle |-> p.handle,
     status_current |-> p.status, doDraft |-> d.doDraft, type |-> d.desiredType,
     msrp_gross |-> RoundedCell(d.msrpGross), M_used |-> RoundedCell(d.M),
     C_used |-> RoundedCell(d.C), price_old |-> CellOfNullable(d.base.price),
     price_new |-> CellOfNullable(d.desiredPriceNew),
     as_low_as_old |-> p.asLowAsCurrent,
     as_low_as_new |-> CellOfNullable(d.desiredAsLowAs),
     tags_to_add |-> Join(d.tagDiff.tags_to_add, "|"),
     tags_to_remove |-> Join(d.tagDiff.tags_to_remove, "|"),
     doTags |-> d.tagDiff.doTags, doPrice |-> d.doPrice, doMetafield |-> d.doMetafield,
     needsChange |-> d.needsChange]

\* The preview row of a product that carries the CNFDNT tag.
CnfdntPreviewRow(p) ==
    LET base == p.variants[BaseIndex(p.variants)]
    IN  [productId |-> p.productId, title |-> p.title, handle |-> p.handle,
         status_current |-> p.status, doDraft |-> FALSE, type |-> "skip",
         msrp_gross |-> CellOfNullable(base.compareAt), M_used |-> "",
         C_used |-> CellOfNullable(base.cost), price_old |-> CellOfNullable(base.price),
         price_new |-> "", as_low_as_old |-> p.asLowAsCurrent, as_low_as_new |-> "",
         tags_to_add |-> "", tags_to_remove |-> "",
         doTags |-> FALSE, doPrice |-> FALSE, doMetafield |-> FALSE, needsChange |-> FALSE]

\* One row of a Matrixify import file.
ImportRow(id, tags, tagsCmd, status, vid, vcmd, vprice, mf) ==
    [ID |-> id, Command |-> "UPDATE", Tags |-> tags, TagsCommand |-> tagsCmd,
     Status |-> status, VariantID |-> vid, VariantCommand |-> vcmd,
     VariantPrice |-> vprice, Metafield |-> mf]

\* MfCell with the slip of never writing the new advertised-from value.
MfCell_keep(p, d) == p.asLowAsCurrent

\* MfCell with the slip of leaving the cell empty for the other regimes.
MfCell_clear(p, d) ==
    IF ~d.missingMC /\ d.desiredType = "standard" /\ d.desiredAsLowAs # <<>>
    THEN StringOfNullable(d.desiredAsLowAs)
    ELSE ""

\* The advertised-from cell: standard sets it, every other regime keeps the
\* current value.
MfCell(p, d) ==
    IF ~d.missingMC /\ d.desiredType = "standard" /\ d.desiredAsLowAs # <<>>
    THEN StringOfNullable(d.desiredAsLowAs)
    ELSE p.asLowAsCurrent

fullDoPrice(d) ==
    ~d.missingMC /\ Includes(TYPE_TAGS, d.desiredType) /\ d.pricing.ok /\ d.desiredPriceNew # <<>>

\* FULL IMPORT: the primary row.
FullPrimaryRow(p, d) ==
    LET fullDoTags == ~d.missingMC /\ Includes(TYPE_TAGS, d.desiredType)
        fullPrimaryHasPriceUpdate == fullDoPrice(d) /\ d.primaryVariantId # ""
    IN  ImportRow(p.productId,
                  IF fullDoTags THEN Join(d.tagDiff.desiredTagsArr, ", ") ELSE "",
                  IF fullDoTags THEN "REPLACE" ELSE "",
                  IF d.doDraft THEN "Draft" ELSE "",
                  IF fullPrimaryHasPriceUpdate THEN d.primaryVariantId ELSE "",
                  IF fullPrimaryHasPriceUpdate THEN "UPDATE" ELSE "",
                  IF fullPrimaryHasPriceUpdate THEN StringOfNullable(d.desiredPriceNew) ELSE "",
                  MfCell(p, d))

\* SecondaryRow with the slip of leaving the price out.
SecondaryRow_noprice(p, d, vid) ==
    ImportRow(p.productId, "", "", "", vid, "UPDATE", "", MfCell(p, d))

\* SecondaryRow with the slip of leaving the advertised-from cell empty.
SecondaryRow_nomf(p, d, vid) ==
    ImportRow(p.productId, "", "", "", vid, "UPDATE", StringOfNullable(d.desiredPriceNew), "")

\* A secondary row: the price update of the variant vid.
SecondaryRow(p, d, vid) ==
    ImportRow(p.productId, "", "", "", vid, "UPDATE", StringOfNullable(d.desiredPriceNew),
              MfCell(p, d))

\* FULL IMPORT: the rows of the variants other than the primary one.
RECURSIVE FullSecondaryRows(_, _, _)
FullSecondaryRows(p, d, i) ==
    IF i > Len(p.variants) THEN <<>>
    ELSE (IF p.variants[i].variantId = "" \/ p.variants[i].variantId = d.primaryVariantId
          THEN <<>> ELSE <<SecondaryRow(p, d, p.variants[i].variantId)>>)
         \o FullSecondaryRows(p, d, i + 1)

\* PrimaryRow with the slip of naming the primary variant on every primary
\* row.
PrimaryRow_idalways(p, d) ==
    LET primaryHasPriceUpdate ==
            d.doPrice /\ d.primaryVariantId # "" /\ Includes(d.variantsToUpdate, d.primaryVariantId)
    IN  ImportRow(p.productId,
                  IF d.tagDiff.doTags THEN Join(d.tagDiff.desiredTagsArr, ", ") ELSE "",
                  IF d.tagDiff.doTags THEN "REPLACE" ELSE "",
                  IF d.doDraft THEN "Draft" ELSE "",
                  d.primaryVariantId,
                  IF primaryHasPriceUpdate THEN "UPDATE" ELSE "",
                  IF primaryHasPriceUpdate THEN StringOfNullable(d.desiredPriceNew) ELSE "",
                  MfCell(p, d))

\* ONLY-CHANGES IMPORT: the primary row.
PrimaryRow(p, d) ==
    LET primaryHasPriceUpdate ==
            d.doPrice /\ d.primaryVariantId # "" /\ Includes(d.variantsToUpdate, d.primaryVariantId)
    IN  ImportRow(p.productId,
                  IF d.tagDiff.doTags THEN Join(d.tagDiff.desiredTagsArr, ", ") ELSE "",
                  IF d.tagDiff.doTags THEN "REPLACE" ELSE "",
                  IF d.doDraft THEN "Draft" ELSE "",
                  IF primaryHasPriceUpdate THEN d.primaryVariantId ELSE "",
                  IF primaryHasPriceUpdate THEN "UPDATE" ELSE "",
                  IF primaryHasPriceUpdate THEN StringOfNullable(d.desiredPriceNew) ELSE "",
                  MfCell(p, d))

\* SecondaryRows with the slip of not passing over the primary variant.
RECURSIVE SecondaryRows_withprimary(_, _, _)
SecondaryRows_withprimary(p, d, i) ==
    IF i > Len(d.variantsToUpdate) THEN <<>>
    ELSE (IF d.variantsToUpdate[i] = ""
          THEN <<>> ELSE <<SecondaryRow(p, d, d.variantsToUpdate[i])>>)
         \o SecondaryRows_withprimary(p, d, i + 1)

\* ONLY-CHANGES IMPORT: the rows of the variants to update other than the
\* primary one.
RECURSIVE SecondaryRows(_, _, _)
SecondaryRows(p, d, i) ==
    IF i > Len(d.variantsToUpdate) THEN <<>>
    ELSE (IF d.variantsToUpdate[i] = "" \/ d.variantsToUpdate[i] = d.primaryVariantId
          THEN <<>> ELSE <<SecondaryRow(p, d, d.variantsToUpdate[i])>>)
         \o SecondaryRows(p, d, i + 1)

\* FAIL-FAST: a primary row that names a variant and carries no price.
VariantWithoutPrice(row) == row.VariantID # "" /\ row.VariantPrice = ""

ChangeItem(p, d) ==
    [productId |-> p.productId, type |-> d.desiredType, doDraft |-> d.doDraft,
     doTags |-> d.tagDiff.doTags, desiredTagsArr |-> d.tagDiff.desiredTagsArr,
     doPrice |-> d.doPrice, desiredPriceNew |-> d.desiredPriceNew,
     variantsToUpdate |-> d.variantsToUpdate, doMetafield |-> d.doMetafield,
     desiredAsLowAs |-> d.desiredAsLowAs, currentAsLowAs |-> p.asLowAsCurrent]

\* One iteration of the decision loop: the next product is handled.
DecideProduct ==
    /\ pc = "decide"
    /\ k < Len(products)
    /\ k' = k + 1
    /\ \E p \in {products[k + 1]} : \E d \in {Decide(p)} :
       \E fullRow \in {FullPrimaryRow(p, d)} : \E row \in {PrimaryRow(p, d)} :
           IF hasCnfdnt(p.tagsArr)
           THEN /\ previewFull' = Append(previewFull, CnfdntPreviewRow(p))
                /\ UNCHANGED <<previewOnly, importOnlyChangesRows, importFullRows,
                               changeItems, pc, error>>
           ELSE /\ previewFull' = Append(previewFull, PreviewRow(p, d))
                /\ previewOnly' = IF d.needsChange THEN Append(previewOnly, PreviewRow(p, d))
                                  ELSE previewOnly
                /\ IF VariantWithoutPrice(fullRow)
                   THEN /\ Throw("full")
                        /\ UNCHANGED <<importOnlyChangesRows, importFullRows, changeItems>>
                   ELSE /\ importFullRows' =
                              importFullRows \o <<fullRow>>
                              \o (IF fullDoPrice(d) THEN FullSecondaryRows(p, d, 1) ELSE <<>>)
                        /\ IF ~d.needsChange
                           THEN UNCHANGED <<importOnlyChangesRows, changeItems, pc, error>>
                           ELSE /\ changeItems' = Append(changeItems, ChangeItem(p, d))
                                /\ IF VariantWithoutPrice(row)
                                   THEN /\ Throw("only-changes")
                                        /\ UNCHANGED importOnlyChangesRows
                                   ELSE /\ importOnlyChangesRows' =
                                              importOnlyChangesRows \o <<row>>
                                              \o (IF d.doPrice THEN SecondaryRows(p, d, 1)
                                                  ELSE <<>>)
                                        /\ UNCHANGED <<pc, error>>
    /\ UNCHANGED <<input, written>>
    /\ UNCHANGED readVars
    /\ UNCHANGED harnessVars

\* The decision loop ends when every product has been handled.
FinishDecide ==
    /\ pc = "decide"
    /\ k = Len(products)
    /\ pc' = "write"
    /\ UNCHANGED <<input, written, error>>
    /\ UNCHANGED readVars
    /\ UNCHANGED decideVars
    /\ UNCHANGED harnessVars

(***************************************************************************)
(* Output: the previews, the import files and the test-20 sample           *)
(***************************************************************************)
\* changeItems.filter(x => x.type === type)
RECURSIVE FilterType(_, _)
FilterType(items, type) ==
    IF items = <<>> THEN <<>>
    ELSE (IF Head(items).type = type THEN <<Head(items)>> ELSE <<>>)
         \o FilterType(Tail(items), type)

\* pick with the slip of taking the whole array.
pick_all(arr, n) == arr

\* arr.slice(0, n)
pick(arr, n) == SubSeq(arr, 1, Min(n, Len(arr)))

\* The product ids of the picked change items.
pickedIds(items) ==
    LET picked == pick(pick(FilterType(items, "standard"), 8)
                       \o pick(FilterType(items, "low-margin"), 6)
                       \o pick(FilterType(items, "used"), 6), 20)
    IN  {picked[i].productId : i \in 1..Len(picked)}

\* importOnlyChangesRows.filter(r => pickedIds.has(r["ID"]))
RECURSIVE FilterPicked(_, _)
FilterPicked(rows, ids) ==
    IF rows = <<>> THEN <<>>
    ELSE (IF Head(rows).ID \in ids THEN <<Head(rows)>> ELSE <<>>)
         \o FilterPicked(Tail(rows), ids)

testRows == FilterPicked(importOnlyChangesRows, pickedIds(changeItems))

\* The files main() writes, in the order of its writeCsv calls.
OutFiles ==
    << [path |-> "preview.full.csv", rows |-> previewFull],
       [path |-> "preview.only-changes.csv", rows |-> previewOnly],
       [path |-> "matrixify.import.only-changes.csv", rows |-> importOnlyChangesRows],
       [path |-> "matrixify.import.full.csv", rows |-> importFullRows],
       [path |-> "matrixify.import.test-20.csv", rows |-> testRows] >>

\* One writeCsv call: the next file is written; after the last one main()
\* returns.
WriteFile ==
    /\ pc = "write"
    /\ Len(written) < Len(OutFiles)
    /\ written' = Append(written, OutFiles[Len(written) + 1])
    /\ pc' = IF Len(written) + 1 = Len(OutFiles) THEN "done" ELSE "write"
    /\ UNCHANGED <<input, error>>
    /\ UNCHANGED readVars
    /\ UNCHANGED decideVars
    /\ UNCHANGED harnessVars

(***************************************************************************)
(* The instructions of a run applied to the aggregates it read             *)
(***************************************************************************)
\* One instruction row applied to the product it names: status Draft where
\* the row says so, the tags replaced where Tags Command is REPLACE, the
\* named variant's price set, the advertised-from attribute set.
ApplyToProduct(p, row) ==
    [p EXCEPT
        !.status = IF row.Status = "Draft" THEN "Draft" ELSE @,
        !.tagsRaw = IF row.TagsCommand = "REPLACE" THEN row.Tags ELSE @,
        !.tagsArr = IF row.TagsCommand = "REPLACE" THEN parseTags(row.Tags) ELSE @,
        !.asLowAsCurrent = row.Metafield,
        !.variants = [j \in 1..Len(@) |->
                         IF row.VariantID # "" /\ @[j].variantId = row.VariantID
                         THEN [@[j] EXCEPT !.price = toNumberOrNull(row.VariantPrice)]
                         ELSE @[j]]]

RECURSIVE Apply(_, _)
Apply(ps, rows) ==
    IF rows = <<>> THEN ps
    ELSE Apply([i \in 1..Len(ps) |->
                   IF ps[i].productId = Head(rows).ID THEN ApplyToProduct(ps[i], Head(rows))
                   ELSE ps[i]],
               Tail(rows))

\* The changed-only instructions of a finished first run are applied and
\* main() decides again, on the result.
ApplyInstructions ==
    /\ pc = "done"
    /\ run = 1
    /\ products' = Apply(products, importOnlyChangesRows)
    /\ applied' = importOnlyChangesRows
    /\ run' = 2
    /\ pc' = "decide"
    /\ k' = 0
    /\ previewFull' = <<>>
    /\ previewOnly' = <<>>
    /\ importOnlyChangesRows' = <<>>
    /\ importFullRows' = <<>>
    /\ changeItems' = <<>>
    /\ written' = <<>>
    /\ UNCHANGED <<input, lineNo, pending, header, delim, idx, metafieldColName,
                   tested, records, rowLog, error, call>>

(***************************************************************************)
(* The older script (part_000): VAT-normalised, no structural check        *)
(***************************************************************************)
T_VAT == 200000

ClassifierConst_000 ==
    [d_max |-> 550000, ship_cost |-> 12900, cust_ship |-> 8500,
     aff_rate |-> 120000, other_rate |-> 45500]

\* The margin G of determineTypeArigato, in millionths of a currency unit.
MarginG_000(M_net, C_net) ==
    LET K == ClassifierConst_000
        P_sale_max == MulF(M_net * 1000, FX - K.d_max)
        affiliate_fee == MulF(P_sale_max, K.aff_rate)
        gross_with_ship == P_sale_max + K.cust_ship * 1000
        gross_with_vat == MulF(gross_with_ship, FX + T_VAT)
        other_fee == MulF(gross_with_vat, K.other_rate)
    IN  P_sale_max - C_net * 1000 - K.ship_cost * 1000 - affiliate_fee - other_fee

determineTypeArigato_000(M_net, C_net, tagsArr) ==
    IF ~(M_net > 0) \/ ~(C_net > 0) THEN "skip"
    ELSE IF hasUsedGateway(tagsArr) THEN "used"
    ELSE IF MarginG_000(M_net, C_net) >= 0 THEN "standard"
    ELSE "low-margin"

PricingU_000 ==
    [alpha |-> 150000, beta |-> 1100000, gamma |-> 200000,
     N |-> 40000, K0 |-> 500000, k |-> 500000]

PricingLM_000 ==
    [alpha |-> 160000, beta |-> 250000, gamma |-> 400000,
     N |-> 35000, K0 |-> 300000, k |-> 500000]

PricingSTD_000 ==
    [d_max |-> 500000, mu0 |-> 750000, beta_disc |-> 200000, gamma_M |-> 230000,
     rho |-> 600000, d_ref |-> 900000, M_ref |-> 25000000]

computePricing_000(M_net, C_net, type) ==
    IF ~(M_net > 0) \/ ~(C_net > 0) THEN [ok |-> FALSE, price_new |-> 0, as_low_as |-> 0]
    ELSE IF type = "used" \/ type = "low-margin"
    THEN LET P == IF type = "used" THEN PricingU_000 ELSE PricingLM_000
             price_new == Min(M_net, PriceRaw(M_net, C_net, P))
         IN  [ok |-> TRUE, price_new |-> round2(price_new), as_low_as |-> round2(0)]
    ELSE IF type = "standard"
    THEN LET P_hidden == Min(M_net, HiddenRaw(M_net, C_net, PricingSTD_000))
             P_sale_min == MulF(P_hidden, FX - PricingSTD_000.d_max)
         IN  [ok |-> TRUE, price_new |-> round2(P_hidden), as_low_as |-> round2(P_sale_min)]
    ELSE [ok |-> TRUE, price_new |-> round2(M_net), as_low_as |-> round2(0)]

\* The regime, then its pricing and its tag diff.
DecideWithMC_000(p, base, msrpGross, M_net, C_net, missingMC, desiredType) ==
    DecideWithType(p, base, msrpGross, M_net, C_net, missingMC, desiredType,
        IF ~missingMC /\ Includes(TYPE_TAGS, desiredType)
        THEN computePricing_000(M_net, C_net, desiredType)
        ELSE [ok |-> FALSE, price_new |-> 0, as_low_as |-> 0],
        IF ~missingMC /\ Includes(TYPE_TAGS, desiredType)
        THEN computeTagDiff(p.tagsArr, desiredType)
        ELSE [desiredTagsArr |-> p.tagsArr, tags_to_add |-> <<>>,
              tags_to_remove |-> <<>>, doTags |-> FALSE])

DecideWithBase_000(p, base, msrpGross, M_net, C_net) ==
    DecideWithMC_000(p, base, msrpGross, M_net, C_net, ~(M_net > 0 /\ C_net > 0),
        IF ~(M_net > 0 /\ C_net > 0) THEN "skip"
        ELSE determineTypeArigato_000(M_net, C_net, p.tagsArr))

\* Everything the loop body derives for the product p; M_net is the
\* reference price with the VAT taken out.
Decide_000(p) ==
    DecideWithBase_000(p, p.variants[BaseIndex(p.variants)],
        MsrpGross(p.variants[BaseIndex(p.variants)]),
        IF MsrpGross(p.variants[BaseIndex(p.variants)]) > 0
        THEN DivF(MsrpGross(p.variants[BaseIndex(p.variants)]), FX + T_VAT) ELSE 0,
        IF p.variants[BaseIndex(p.variants)].cost = <<>> THEN 0
        ELSE p.variants[BaseIndex(p.variants)].cost[1])

\* The advertised-from cell: the new value when it changes, else the
\* current one.
MfCell_000(p, d) ==
    IF d.doMetafield THEN StringOfNullable(d.desiredAsLowAs) ELSE p.asLowAsCurrent

\* The primary row: it names the primary variant whether or not it carries
\* a price for it.
PrimaryRow_000(p, d) ==
    LET primaryHasPriceUpdate ==
            d.doPrice /\ d.primaryVariantId # "" /\ Includes(d.variantsToUpdate, d.primaryVariantId)
    IN  ImportRow(p.productId,
                  IF d.tagDiff.doTags THEN Join(d.tagDiff.desiredTagsArr, ", ") ELSE "",
                  IF d.tagDiff.doTags THEN "REPLACE" ELSE "",
                  IF d.doDraft THEN "Draft" ELSE "",
                  d.primaryVariantId,
                  IF primaryHasPriceUpdate THEN "UPDATE" ELSE "",
                  IF primaryHasPriceUpdate THEN StringOfNullable(d.desiredPriceNew) ELSE "",
                  MfCell_000(p, d))

RECURSIVE SecondaryRows_000(_, _, _)
SecondaryRows_000(p, d, i) ==
    IF i > Len(d.variantsToUpdate) THEN <<>>
    ELSE (IF d.variantsToUpdate[i] = "" \/ d.variantsToUpdate[i] = d.primaryVariantId
          THEN <<>>
          ELSE <<ImportRow(p.productId, "", "", "", d.variantsToUpdate[i], "UPDATE",
                           StringOfNullable(d.desiredPriceNew), MfCell_000(p, d))>>)
         \o SecondaryRows_000(p, d, i + 1)

\* The preview row of the older script.
PreviewRow_000(p, d) ==
    [productId |-> p.productId, title |-> p.title, handle |-> p.handle,
     status_current |-> p.status, doDraft |-> d.doDraft, type |-> d.desiredType,
     msrp_gross |-> RoundedCell(d.msrpGross), M_net |-> RoundedCell(d.M),
     C_net |-> RoundedCell(d.C), price_old |-> CellOfNullable(d.base.price),
     price_new |-> CellOfNullable(d.desiredPriceNew),
     as_low_as_old |-> p.asLowAsCurrent,
     as_low_as_new |-> CellOfNullable(d.desiredAsLowAs),
     tags_to_add |-> Join(d.tagDiff.tags_to_add, "|"),
     tags_to_remove |-> Join(d.tagDiff.tags_to_remove, "|"),
     doTags |-> d.tagDiff.doTags, doPrice |-> d.doPrice, doMetafield |-> d.doMetafield,
     needsChange |-> d.needsChange]

\* One iteration of the decision loop of the older script.
DecideProduct_000 ==
    /\ pc = "decide"
    /\ k < Len(products)
    /\ k' = k + 1
    /\ \E p \in {products[k + 1]} : \E d \in {Decide_000(p)} :
           /\ previewFull' = Append(previewFull, PreviewRow_000(p, d))
           /\ previewOnly' = IF d.needsChange THEN Append(previewOnly, PreviewRow_000(p, d))
                             ELSE previewOnly
           /\ IF ~d.needsChange
              THEN UNCHANGED <<importOnlyChangesRows, changeItems>>
              ELSE /\ changeItems' = Append(changeItems, ChangeItem(p, d))
                   /\ importOnlyChangesRows' =
                          importOnlyChangesRows \o <<PrimaryRow_000(p, d)>>
                          \o (IF d.doPrice THEN SecondaryRows_000(p, d, 1) ELSE <<>>)
    /\ UNCHANGED <<input, written, importFullRows, pc, error>>
    /\ UNCHANGED readVars
    /\ UNCHANGED harnessVars

\* The files the older script writes, in the order of its writeCsv calls.
OutFiles_000 ==
    << [path |-> "preview.full.csv", rows |-> previewFull],
       [path |-> "preview.only-changes.csv", rows |-> previewOnly],
       [path |-> "matrixify.import.only-changes.csv", rows |-> importOnlyChangesRows],
       [path |-> "matrixify.import.test-20.csv", rows |-> testRows] >>

WriteFile_000 ==
    /\ pc = "write"
    /\ Len(written) < Len(OutFiles_000)
    /\ written' = Append(written, OutFiles_000[Len(written) + 1])
    /\ pc' = IF Len(written) + 1 = Len(OutFiles_000) THEN "done" ELSE "write"
    /\ UNCHANGED <<input, error>>
    /\ UNCHANGED readVars
    /\ UNCHANGED decideVars
    /\ UNCHANGED harnessVars

(***************************************************************************)
(* The runner script (matrixify-run.mjs): its decision loop                *)
(***************************************************************************)
\* splitTags
splitTags(s) == IF s = "" THEN <<>> ELSE FilterNonEmpty(MapTrim(Split(s, ",")))

\* toNumberOrNull of the runner script: an empty cell is null, not 0.
toNumberOrNull_run(x) ==
    IF Trim(x) = "" THEN <<>> ELSE NumberOfString(ReplaceFirstComma(Trim(x)))

\* Number(x) for a number or null x: Number(null) is 0.
NumberOfNullable(n) == IF n = <<>> THEN 0 ELSE n[1]

\* approxEqualMoney of the runner script, on numbers or null.
approxEqualMoney_run(a, b) == Abs(NumberOfNullable(a) - NumberOfNullable(b)) < 5

\* n.toFixed(2) for a number with at most two decimals.
ToFixed2(m) ==
    (IF m < 0 THEN "-" ELSE "") \o DigitsOf(Abs(m) \div MU) \o "."
    \o DigitsOf((Abs(m) % MU) \div 100) \o DigitsOf(((Abs(m) % MU) \div 10) % 10)

\* fmt2, for a number or null.
fmt2(n) == IF n = <<>> THEN "" ELSE ToFixed2(round2(n[1]))

normalizeMetafieldVal(s) == fmt2(toNumberOrNull_run(s))

determineTypeArigato_run(M_net, C_net, tags) ==
    IF ~(M_net > 0) \/ ~(C_net > 0) THEN "skip"
    ELSE IF hasUsedGateway(tags) THEN "used"
    ELSE IF MarginG_000(M_net, C_net) >= 0 THEN "standard"
    ELSE "low-margin"

\* computePricing of the runner script: the text of the older script's.
computePricing_run(M_net, C_net, type) == computePricing_000(M_net, C_net, type)

computeTagOps(currentTags, desiredType) ==
    LET cur == currentTags
        curLower == MapNormTag(cur)
        tags_to_add == IF Includes(TYPE_TAGS, desiredType) /\ ~Includes(curLower, desiredType)
                       THEN <<desiredType>> ELSE <<>>
        tags_to_remove == OtherTypeTags(curLower, desiredType, 1)
        cleaned == FilterNotType(cur)
    IN  [desiredTags |-> IF Includes(TYPE_TAGS, desiredType)
                            /\ ~Includes(MapNormTag(cleaned), desiredType)
                         THEN Append(cleaned, desiredType) ELSE cleaned,
         tags_to_add |-> tags_to_add,
         tags_to_remove |-> tags_to_remove,
         doTags |-> Len(tags_to_add) > 0 \/ Len(tags_to_remove) > 0]

\* The cell of the column called name in a row of readMatrixify:
\* row[headers[i]] = vals[i] ?? "", a later column of the same name winning;
\* row[name] || "" for a name that is no column.
RowCell(headers, vals, name) ==
    LET hits == {i \in 1..Len(headers) : headers[i] = name}
    IN  IF hits = {} THEN "" ELSE Cell(vals, CHOOSE i \in hits : \A j \in hits : j <= i)

\* readMatrixify: what it takes from one data row, by column name.
RowOf_run(headers, vals) ==
    LET posN == toNumberOrNull_run(RowCell(headers, vals, "Variant Position"))
    IN  [productId |-> RowCell(headers, vals, "ID"),
         handle |-> RowCell(headers, vals, "Handle"),
         title |-> RowCell(headers, vals, "Title"),
         status |-> RowCell(headers, vals, "Status"),
         tagsRaw |-> RowCell(headers, vals, "Tags"),
         asLowAsRaw |-> RowCell(headers, vals, "Metafield: spotted.as_low_as [number_decimal]"),
         variantId |-> RowCell(headers, vals, "Variant ID"),
         position |-> IF posN = <<>> THEN POS_SENTINEL ELSE posN[1],
         price |-> toNumberOrNull_run(RowCell(headers, vals, "Variant Price")),
         compareAt |-> toNumberOrNull_run(RowCell(headers, vals, "Variant Compare At Price")),
         cost |-> toNumberOrNull_run(RowCell(headers, vals, "Variant Cost"))]

\* readMatrixify: one data row r grouped into the Map.  A row without ID is
\* passed over; scalar fields come from the first row of a product only.
AddRow_run(ps, r) ==
    LET fresh == [productId |-> r.productId, handle |-> r.handle, title |-> r.title,
                  status |-> r.status, tagsRaw |-> r.tagsRaw, asLowAsRaw |-> r.asLowAsRaw,
                  variants |-> <<>>]
        ps1 == IF ProductIndex(ps, r.productId) = 0 THEN Append(ps, fresh) ELSE ps
        i == ProductIndex(ps1, r.productId)
        v == [variantId |-> r.variantId, position |-> r.position, price |-> r.price,
              compareAt |-> r.compareAt, cost |-> r.cost]
    IN  IF r.productId = "" THEN ps
        ELSE [ps1 EXCEPT ![i] = [ps1[i] EXCEPT !.variants = Append(ps1[i].variants, v)]]

\* vs.slice().sort((a, b) => a.position - b.position): a stable sort; v is
\* put behind every element of the sorted list whose position is not higher.
InsertByPosition(sorted, v) ==
    LET n == Cardinality({i \in 1..Len(sorted) : sorted[i].position <= v.position})
    IN  SubSeq(sorted, 1, n) \o <<v>> \o SubSeq(sorted, n + 1, Len(sorted))

RECURSIVE SortByPosition(_)
SortByPosition(vs) ==
    IF vs = <<>> THEN <<>>
    ELSE InsertByPosition(SortByPosition(SubSeq(vs, 1, Len(vs) - 1)), vs[Len(vs)])

\* pickBaseVariant: <<>> is null, else <<the base variant>>.
pickBaseVariant(p) ==
    IF p.variants = <<>> THEN <<>> ELSE <<SortByPosition(p.variants)[1]>>

\* The price updates of main(): the ids of the variants with an id whose
\* price is not approximately priceNew, in variant order.
RECURSIVE VariantUpdates(_, _)
VariantUpdates(variants, priceNew) ==
    IF variants = <<>> THEN <<>>
    ELSE (IF Head(variants).variantId # "" /\ ~approxEqualMoney_run(Head(variants).price, priceNew)
          THEN <<Head(variants).variantId>> ELSE <<>>)
         \o VariantUpdates(Tail(variants), priceNew)

\* The object computed of main(), in steps; each step hands the values it
\* derived to the next.  Last step: the price updates, the advertised-from
\* decision and needsChange.
ComputedWithPrices(p, msrpGross, M_net, C_net, missingMC, doDraft, type, priceNew, asLowAsNew, tagOps, variantUpdates, currentAsLowAs) ==
    [type |-> type, msrpGross |-> msrpGross, M_net |-> M_net, C_net |-> C_net,
     missingMC |-> missingMC, doDraft |-> doDraft, doTags |-> tagOps.doTags,
     tags_to_add |-> tagOps.tags_to_add, tags_to_remove |-> tagOps.tags_to_remove,
     desiredTags |-> tagOps.desiredTags, variantUpdates |-> variantUpdates,
     doMetafield |-> /\ ~missingMC
                     /\ type = "standard"
                     /\ asLowAsNew # <<>>
                     /\ (currentAsLowAs = <<>> \/ currentAsLowAs = <<0>>
                         \/ ~approxEqualMoney_run(currentAsLowAs, asLowAsNew)),
     priceNew |-> priceNew, asLowAsNew |-> asLowAsNew,
     needsChange |-> \/ doDraft
                     \/ tagOps.doTags
                     \/ Len(variantUpdates) > 0
                     \/ (/\ ~missingMC
                         /\ type = "standard"
                         /\ asLowAsNew # <<>>
                         /\ (currentAsLowAs = <<>> \/ currentAsLowAs = <<0>>
                             \/ ~approxEqualMoney_run(currentAsLowAs, asLowAsNew))),
     canPriceWrite |-> ~missingMC /\ Includes(TYPE_TAGS, type)]

\* The pricing result and the tag operations of the regime.
ComputedWithPricing(p, tags, msrpGross, M_net, C_net, missingMC, doDraft, type, pricing) ==
    ComputedWithPrices(p, msrpGross, M_net, C_net, missingMC, doDraft, type,
        IF pricing.ok THEN <<pricing.price_new>> ELSE <<>>,
        IF pricing.ok /\ type = "standard" /\ pricing.as_low_as > 0
        THEN <<pricing.as_low_as>> ELSE <<>>,
        IF ~missingMC /\ Includes(TYPE_TAGS, type)
        THEN computeTagOps(tags, type)
        ELSE [desiredTags |-> tags, tags_to_add |-> <<>>, tags_to_remove |-> <<>>,
              doTags |-> FALSE],
        IF ~missingMC /\ pricing.ok
        THEN VariantUpdates(p.variants, <<pricing.price_new>>) ELSE <<>>,
        toNumberOrNull_run(p.asLowAsRaw))

\* The regime.
ComputedWithType(p, tags, msrpGross, M_net, C_net, missingMC, type) ==
    ComputedWithPricing(p, tags, msrpGross, M_net, C_net, missingMC,
        missingMC /\ ToLower(p.status) # "draft", type,
        IF ~missingMC /\ Includes(TYPE_TAGS, type)
        THEN computePricing_run(M_net, C_net, type)
        ELSE [ok |-> FALSE, price_new |-> 0, as_low_as |-> 0])

\* M_net (the reference price with the VAT taken out) and C_net.
ComputedWithMC(p, tags, msrpGross, M_net, C_net) ==
    ComputedWithType(p, tags, msrpGross, M_net, C_net, ~(M_net > 0 /\ C_net > 0),
        IF ~(M_net > 0 /\ C_net > 0) THEN "skip"
        ELSE determineTypeArigato_run(M_net, C_net, tags))

\* The base variant's reference price and cost.
ComputedWithBase(p, tags, base) ==
    ComputedWithMC(p, tags,
        IF base = <<>> THEN <<>> ELSE base[1].compareAt,
        IF base # <<>> /\ base[1].compareAt # <<>> /\ base[1].compareAt[1] > 0
        THEN DivF(base[1].compareAt[1], FX + T_VAT) ELSE 0,
        IF base = <<>> \/ base[1].cost = <<>> THEN 0 ELSE base[1].cost[1])

\* Everything the loop body of main() computes for the product p.
Computed(p) == ComputedWithBase(p, splitTags(p.tagsRaw), pickBaseVariant(p))

baseImportRow(p) ==
    [ID |-> p.productId, Handle |-> p.handle, Title |-> p.title, Command |-> "UPDATE",
     Tags |-> "", TagsCommand |-> "", Status |-> "", Metafield |-> "",
     VariantID |-> "", VariantCommand |-> "", VariantPrice |-> ""]

attachProductFields(row, computed) ==
    [row EXCEPT
        !.Tags = IF computed.doTags THEN Join(computed.desiredTags, ", ") ELSE @,
        !.TagsCommand = IF computed.doTags THEN "REPLACE" ELSE @,
        !.Status = IF computed.doDraft THEN "Draft" ELSE @,
        !.Metafield = IF computed.doMetafield THEN fmt2(computed.asLowAsNew) ELSE @]

\* The row of a price update of the variant vid.
VariantRow_run(p, computed, vid) ==
    [baseImportRow(p) EXCEPT !.VariantID = vid, !.VariantCommand = "UPDATE",
                             !.VariantPrice = fmt2(computed.priceNew)]

buildOnlyChangesRows(p, computed) ==
    IF Len(computed.variantUpdates) > 0
    THEN [i \in 1..Len(computed.variantUpdates) |->
            IF i = 1
            THEN attachProductFields(VariantRow_run(p, computed, computed.variantUpdates[i]), computed)
            ELSE VariantRow_run(p, computed, computed.variantUpdates[i])]
    ELSE <<attachProductFields(baseImportRow(p), computed)>>

\* (p.variants || []).filter(v => v.variantId)
RECURSIVE FilterWithId(_)
FilterWithId(vs) ==
    IF vs = <<>> THEN <<>>
    ELSE (IF Head(vs).variantId # "" THEN <<Head(vs)>> ELSE <<>>) \o FilterWithId(Tail(vs))

\* FullFixedRow with the slip of naming the variant whatever the regime.
FullFixedRow_always(p, computed, v) == VariantRow_run(p, computed, v.variantId)

\* The row of buildFullFixedRows for the variant v.
FullFixedRow(p, computed, v) ==
    IF computed.priceNew # <<>> /\ computed.canPriceWrite
    THEN VariantRow_run(p, computed, v.variantId)
    ELSE baseImportRow(p)

buildFullFixedRows(p, computed) ==
    LET vars_ == SortByPosition(FilterWithId(p.variants))
    IN  IF Len(vars_) = 0
        THEN <<attachProductFields(baseImportRow(p), computed)>>
        ELSE [i \in 1..Len(vars_) |->
                IF i = 1 THEN attachProductFields(FullFixedRow(p, computed, vars_[i]), computed)
                ELSE FullFixedRow(p, computed, vars_[i])]

previewRow(p, computed) ==
    [productId |-> p.productId, handle |-> p.handle, title |-> p.title,
     status_current |-> p.status,
     status_desired |-> IF computed.doDraft THEN "Draft" ELSE p.status,
     type |-> computed.type,
     msrp_gross |-> fmt2(computed.msrpGross),
     M_net |-> fmt2(<<computed.M_net>>),
     C_net |-> fmt2(<<computed.C_net>>),
     price_new |-> fmt2(computed.priceNew),
     as_low_as_old |-> normalizeMetafieldVal(p.asLowAsRaw),
     as_low_as_new |-> fmt2(computed.asLowAsNew),
     tags_to_add |-> Join(computed.tags_to_add, "|"),
     tags_to_remove |-> Join(computed.tags_to_remove, "|"),
     doDraft |-> computed.doDraft, doTags |-> computed.doTags,
     doPrice |-> Len(computed.variantUpdates) > 0,
     doMetafield |-> computed.doMetafield, needsChange |-> computed.needsChange]

\* One iteration of the loop of main(): the next product is handled.  The
\* lists previewAll, previewChanges, onlyChangesImportRows and
\* fullFixedImportRows are the variables previewFull, previewOnly,
\* importOnlyChangesRows and importFullRows; changeItems holds what main()
\* pushes to changeProductsByType, in order.
DecideProduct_run ==
    /\ pc = "decide"
    /\ k < Len(products)
    /\ k' = k + 1
    /\ \E p \in {products[k + 1]} : \E computed \in {Computed(p)} :
       \E pr \in {previewRow(p, computed)} :
           /\ previewFull' = Append(previewFull, pr)
           /\ previewOnly' = IF computed.needsChange THEN Append(previewOnly, pr)
                             ELSE previewOnly
           /\ changeItems' = IF computed.needsChange /\ Includes(TYPE_TAGS, computed.type)
                             THEN Append(changeItems, [productId |-> p.productId,
                                                       type |-> computed.type])
                             ELSE changeItems
           /\ importOnlyChangesRows' =
                  IF computed.needsChange
                  THEN importOnlyChangesRows \o buildOnlyChangesRows(p, computed)
                  ELSE importOnlyChangesRows
           /\ importFullRows' = importFullRows \o buildFullFixedRows(p, computed)
    /\ UNCHANGED <<input, written, pc, error>>
    /\ UNCHANGED readVars
    /\ UNCHANGED harnessVars

\* TEST_SIZE, by default.
TEST_SIZE == 20

\* The ids of seq without repetitions, in order of first occurrence.
RECURSIVE Distinct(_)
Distinct(seq) ==
    IF seq = <<>> THEN <<>>
    ELSE LET front == Distinct(SubSeq(seq, 1, Len(seq) - 1))
         IN  IF Includes(front, seq[Len(seq)]) THEN front ELSE Append(front, seq[Len(seq)])

\* The product ids of the items of one type, in order.
IdsOfType(items, type) ==
    LET its == FilterType(items, type)
    IN  [i \in 1..Len(its) |-> its[i].productId]

\* pick of main() for the sample size n: the changed products in the order
\* standard, low-margin, used, without repetitions, n at most; the fallback
\* loop walks the same three lists and finds nothing new.
pick_sized(items, n) ==
    pick(Distinct(IdsOfType(items, "standard") \o IdsOfType(items, "low-margin")
                  \o IdsOfType(items, "used")), n)

\* pick of main(): the changed products in the order standard, low-margin,
\* used, without repetitions, TEST_SIZE at most.
pick_run(items) == pick_sized(items, TEST_SIZE)

\* The files the runner script writes, in order.
OutFiles_run ==
    << [path |-> "preview.full.csv", rows |-> previewFull],
       [path |-> "preview.only-changes.csv", rows |-> previewOnly],
       [path |-> "matrixify.full-fixed.csv", rows |-> importFullRows],
       [path |-> "matrixify.only-changes.csv", rows |-> importOnlyChangesRows],
       [path |-> "matrixify.test-20.csv",
        rows |-> FilterPicked(importOnlyChangesRows,
                              {pick_run(changeItems)[i] : i \in 1..Len(pick_run(changeItems))})],
       [path |-> "test-products.csv", rows |-> <<"productId">> \o pick_run(changeItems)] >>

WriteFile_run ==
    /\ pc = "write"
    /\ Len(written) < Len(OutFiles_run)
    /\ written' = Append(written, OutFiles_run[Len(written) + 1])
    /\ pc' = IF Len(written) + 1 = Len(OutFiles_run) THEN "done" ELSE "write"
    /\ UNCHANGED <<input, error>>
    /\ UNCHANGED readVars
    /\ UNCHANGED decideVars
    /\ UNCHANGED harnessVars

(***************************************************************************)
(* Direct calls of the classifier and of the pricing model                 *)
(***************************************************************************)
\* A direct call of computeTagDiff.
CallComputeTagDiff ==
    /\ pc = "call"
    /\ call.fn = "computeTagDiff"
    /\ call' = [call EXCEPT !.result = <<computeTagDiff(call.args[1], call.args[2])>>]
    /\ pc' = "returned"
    /\ UNCHANGED <<input, written, error, run, applied>>
    /\ UNCHANGED readVars
    /\ UNCHANGED decideVars

\* A direct call of approxEqualMoney with a text and a number.
CallApproxEqualMoney ==
    /\ pc = "call"
    /\ call.fn = "approxEqualMoney"
    /\ call' = [call EXCEPT !.result =
                   <<approxEqualMoney(toNumberOrNull(call.args[1]), <<call.args[2]>>)>>]
    /\ pc' = "returned"
    /\ UNCHANGED <<input, written, error, run, applied>>
    /\ UNCHANGED readVars
    /\ UNCHANGED decideVars

\* The runner script's comparison of a price cell, as readMatrixify parsed
\* it, with a number.
CallApproxEqualMoney_run ==
    /\ pc = "call"
    /\ call.fn = "approxEqualMoney (runner)"
    /\ call' = [call EXCEPT !.result =
                   <<approxEqualMoney_run(toNumberOrNull_run(call.args[1]), <<call.args[2]>>)>>]
    /\ pc' = "returned"
    /\ UNCHANGED <<input, written, error, run, applied>>
    /\ UNCHANGED readVars
    /\ UNCHANGED decideVars

\* The variants of a product whose Variant Price cells are cells, as the read
\* loop parses them; their ids are 11, 12, ...
VariantsOfCells(cells) ==
    [i \in 1..Len(cells) |->
        [variantId |-> DigitsOf(10 + i), pos |-> i * MU, price |-> toNumberOrNull(cells[i]),
         compareAt |-> <<>>, cost |-> <<>>]]

\* The price decision of the decision loop on its own, for the price cells
\* args[1] and the computed price args[2]: variantsToUpdate and doPrice.
CallPriceDecision ==
    /\ pc = "call"
    /\ call.fn = "variantsToUpdate"
    /\ \E vs \in {VariantsToUpdate(VariantsOfCells(call.args[1]), <<call.args[2]>>)} :
           call' = [call EXCEPT !.result = <<vs, Len(vs) > 0>>]
    /\ pc' = "returned"
    /\ UNCHANGED <<input, written, error, run, applied>>
    /\ UNCHANGED readVars
    /\ UNCHANGED decideVars

\* Reference prices and costs for two calls of the classifier in a row; the
\* margin changes sign between M = 766.160 and 766.161 for C = 300, between
\* M = 252.593 and 252.594 for C = 90, between M = 34.939 and 34.940 for
\* C = 1.
TwiceM ==
    {1000000, 766161, 766160, 766159, 500000, 252594, 252593, 252592, 100000,
     34940, 34939, 34938, 1500, 0}

TwiceC == {300000, 90000, 1000, 0}

CallDetermineType ==
    /\ pc = "call"
    /\ call.fn = "determineTypeArigato"
    /\ call' = [call EXCEPT !.result =
                   <<determineTypeArigato(call.args[1], call.args[2], call.args[3])>>]
    /\ pc' = "returned"
    /\ UNCHANGED <<input, written, error, run, applied>>
    /\ UNCHANGED readVars
    /\ UNCHANGED decideVars

CallComputePricing ==
    /\ pc = "call"
    /\ call.fn = "computePricing"
    /\ call' = [call EXCEPT !.result =
                   <<computePricing(call.args[1], call.args[2], call.args[3])>>]
    /\ pc' = "returned"
    /\ UNCHANGED <<input, written, error, run, applied>>
    /\ UNCHANGED readVars
    /\ UNCHANGED decideVars

\* A further call of determineTypeArigato after one has returned, with
\* another reference price M2 and the same cost and tags.  The earlier
\* result stays in call.result, the earlier M becomes call.args[4].
CallDetermineTypeAgain ==
    /\ pc = "returned"
    /\ call.fn = "determineTypeArigato"
    /\ \E M2 \in TwiceM :
           call' = [call EXCEPT
                      !.args = <<M2, call.args[2], call.args[3], call.args[1]>>,
                      !.result = call.result
                                 \o <<determineTypeArigato(M2, call.args[2], call.args[3])>>]
    /\ pc' = "returned twice"
    /\ UNCHANGED <<input, written, error, run, applied>>
    /\ UNCHANGED readVars
    /\ UNCHANGED decideVars

(***************************************************************************)
(* A run of main() on an input file                                        *)
(***************************************************************************)
\* The number of physical lines after the header line.
MaxLines == 3

NoCall == [fn |-> "none", args |-> <<>>, result |-> <<>>]

HeaderLines ==
    { "ID,Tags,Status,Variant ID,Variant Position,Variant Price,Variant Compare At Price,Variant Cost",
      "\fid; TAGS ;Status;Variant ID;Variant Position;Variant Price;Variant Compare At Price;Variant Cost;\"Metafield: spotted.as_low_as [number_decimal]\"",
      "ID,Tags,Status,Variant ID,Variant Position,Variant Price,Variant Compare At Price" }

DataLines ==
    { "1,\"Used, standard\",Active,11,1,100,1000,300",
      "1,,,12,2,\"599,31\",1000,300",
      "2,\"a",
      "b\"\"c\",,21,,5,,",
      " ",
      ",x,Active,31,1,1,1,1",
      "x7,,Active,31,1,1,1,1",
      "3;standard;draft;31;1;1000;1000;300;490" }

\* The sequences over S of length n.
RECURSIVE SeqsOfLen(_, _)
SeqsOfLen(S, n) ==
    IF n = 0 THEN {<<>>}
    ELSE {Append(q, x) : q \in SeqsOfLen(S, n - 1), x \in S}

SeqsUpTo(S, n) == UNION {SeqsOfLen(S, i) : i \in 0..n}

\* The state main() starts from, the input file aside.
Fresh ==
    /\ lineNo = 0
    /\ pending = ""
    /\ header = <<>>
    /\ delim = ","
    /\ idx = NoIndex
    /\ metafieldColName = <<>>
    /\ products = <<>>
    /\ tested = <<>>
    /\ records = <<>>
    /\ rowLog = <<>>
    /\ error = ""
    /\ k = 0
    /\ previewFull = <<>>
    /\ previewOnly = <<>>
    /\ importOnlyChangesRows = <<>>
    /\ importFullRows = <<>>
    /\ changeItems = <<>>
    /\ written = <<>>
    /\ run = 1
    /\ applied = <<>>

Init ==
    /\ input \in {<<h>> \o d : h \in HeaderLines, d \in SeqsUpTo(DataLines, MaxLines)}
    /\ pc = "read"
    /\ call = NoCall
    /\ Fresh

Next == ReadLine \/ EndOfInput \/ DecideProduct \/ FinishDecide \/ WriteFile

Spec == Init /\ [][Next]_vars

(***************************************************************************)
(* The engine on product aggregates                                        *)
(***************************************************************************)
\* The number of rows grouped into the aggregates the engine starts from.
MaxRows == 2

EngineHeaderLine ==
    "ID,Tags,Status,Variant ID,Variant Position,Variant Price,Variant Compare At Price,Variant Cost,Metafield: spotted.as_low_as [number_decimal]"

EngineHeader == HeaderOf(EngineHeaderLine, ",")

EngineMetafieldCol == MetafieldCol(EngineHeader, HeaderNorm(EngineHeader))

EngineIndex == ColumnIndex(HeaderNorm(EngineHeader), EngineMetafieldCol)

EngineIds == {"1", "2"}

\* Tags and Status cells.
EngineTagStatus ==
    { <<"", "Active">>, <<"Used, standard", "Active">>, <<"preloved", "draft">>,
      <<"standard", "">>, <<"cnfdnt, low-margin", "Active">> }

\* Variant ID, Variant Position and Variant Price cells.
EngineVariants == { <<"11", "1", "1000.00">>, <<"12", "2", "599,31">>, <<"", "x", "100">> }

\* Variant Compare At Price and Variant Cost cells.
EngineMC == { <<"1000", "300">>, <<"100", "90">>, <<"", "300">> }

EngineMf == {"", "490"}

\* The cells of the first row and of a further row, in the order of
\* EngineHeader.
EngineFirstRows ==
    { <<id, ts[1], ts[2], v[1], v[2], v[3], mc[1], mc[2], mf>> :
        id \in EngineIds, ts \in EngineTagStatus, v \in EngineVariants,
        mc \in EngineMC, mf \in EngineMf }

EngineMoreRows ==
    { <<id, "", "", v[1], v[2], v[3], mc[1], mc[2], "">> :
        id \in EngineIds, v \in EngineVariants, mc \in {<<"1000", "300">>, <<"", "">>} }

\* The fields the read loop takes from each of the rows (their cells).
RecordsOf(rows, ix) == {RowOf(r, ix) : r \in rows}

\* The aggregates the read loop builds from the rows (their fields) in order.
RECURSIVE GroupRows(_, _)
GroupRows(ps, rows) ==
    IF rows = <<>> THEN ps
    ELSE GroupRows(AddRow(ps, Head(rows)), Tail(rows))

\* The state at the start of the decision loop, the read loop having
\* grouped some rows.
InitEngine ==
    \E ix \in {EngineIndex} :
        /\ idx = ix
        /\ header = EngineHeader
        /\ metafieldColName = EngineMetafieldCol
        /\ \E f \in RecordsOf(EngineFirstRows, ix) :
           \E m \in SeqsUpTo(RecordsOf(EngineMoreRows, ix), MaxRows - 1) :
               products = GroupRows(<<>>, <<f>> \o m)
        /\ pc = "decide"
        /\ input = <<>>
        /\ lineNo = 0
        /\ pending = ""
        /\ delim = ","
        /\ tested = <<>>
        /\ records = <<>>
        /\ rowLog = <<>>
        /\ error = ""
        /\ k = 0
        /\ previewFull = <<>>
        /\ previewOnly = <<>>
        /\ importOnlyChangesRows = <<>>
        /\ importFullRows = <<>>
        /\ changeItems = <<>>
        /\ written = <<>>
        /\ run = 1
        /\ applied = <<>>
        /\ call = NoCall

NextEngine == DecideProduct \/ FinishDecide \/ WriteFile \/ ApplyInstructions

SpecEngine == InitEngine /\ [][NextEngine]_vars

InitEngine000 == InitEngine

NextEngine000 == DecideProduct_000 \/ FinishDecide \/ WriteFile_000

SpecEngine000 == InitEngine000 /\ [][NextEngine000]_vars

\* What readMatrixify takes from each of the rows (their cells).
RecordsOf_run(rows, headers) == {RowOf_run(headers, r) : r \in rows}

\* The aggregates readMatrixify builds from the rows in order.
RECURSIVE GroupRows_run(_, _)
GroupRows_run(ps, rows) ==
    IF rows = <<>> THEN ps
    ELSE GroupRows_run(AddRow_run(ps, Head(rows)), Tail(rows))

\* The runner script at the start of its decision loop, readMatrixify
\* having grouped some rows.
InitEngineRun ==
    /\ header = EngineHeader
    /\ \E f \in RecordsOf_run(EngineFirstRows, header) :
       \E m \in SeqsUpTo(RecordsOf_run(EngineMoreRows, header), MaxRows - 1) :
           products = GroupRows_run(<<>>, <<f>> \o m)
    /\ idx = NoIndex
    /\ metafieldColName = <<>>
    /\ pc = "decide"
    /\ input = <<>>
    /\ lineNo = 0
    /\ pending = ""
    /\ delim = ","
    /\ tested = <<>>
    /\ records = <<>>
    /\ rowLog = <<>>
    /\ error = ""
    /\ k = 0
    /\ previewFull = <<>>
    /\ previewOnly = <<>>
    /\ importOnlyChangesRows = <<>>
    /\ importFullRows = <<>>
    /\ changeItems = <<>>
    /\ written = <<>>
    /\ run = 1
    /\ applied = <<>>
    /\ call = NoCall

NextEngineRun == DecideProduct_run \/ FinishDecide \/ WriteFile_run

SpecEngineRun == InitEngineRun /\ [][NextEngineRun]_vars

(***************************************************************************)
(* The decision loop over products of several variants                     *)
(***************************************************************************)
\* The number of data rows of an input of variant rows.
MaxVariants == 3

\* Variant ID, Variant Position, Variant Price, Variant Compare At Price and
\* Variant Cost cells of a row: positions out of order, a tie on position 1,
\* a base candidate without reference price and cost, one without id, an
\* unparseable and an empty position, and a price that is already right.
VariantCells ==
    { <<"11", "2", "100", "1000", "300">>,
      <<"12", "1", "100", "", "">>,
      <<"13", "3", "100", "1000", "300">>,
      <<"", "1", "100", "1000", "300">>,
      <<"14", "x", "100", "1000", "300">>,
      <<"15", "1", "1000,00", "1000", "300">>,
      <<"16", "", "100", "1000", "300">> }

\* The cells of the first row and of a further row, in the order of
\* EngineHeader; a further row belongs to the first product or opens a
\* second one.
VariantFirstRows ==
    { <<"1", "standard", "Active", v[1], v[2], v[3], v[4], v[5], "">> : v \in VariantCells }

VariantMoreRows ==
    { <<"1", "", "", v[1], v[2], v[3], v[4], v[5], "">> : v \in VariantCells }
    \cup { <<"2", "", "", v[1], v[2], v[3], v[4], v[5], "">> :
             v \in { <<"11", "2", "100", "1000", "300">>, <<"13", "3", "100", "1000", "300">> } }

\* The state at the start of the decision loop, the read loop having
\* grouped some variant rows.
InitVariants ==
    \E ix \in {EngineIndex} :
        /\ idx = ix
        /\ header = EngineHeader
        /\ metafieldColName = EngineMetafieldCol
        /\ \E f \in RecordsOf(VariantFirstRows, ix) :
           \E m \in SeqsUpTo(RecordsOf(VariantMoreRows, ix), MaxVariants - 1) :
               products = GroupRows(<<>>, <<f>> \o m)
        /\ pc = "decide"
        /\ input = <<>>
        /\ lineNo = 0
        /\ pending = ""
        /\ delim = ","
        /\ tested = <<>>
        /\ records = <<>>
        /\ rowLog = <<>>
        /\ error = ""
        /\ k = 0
        /\ previewFull = <<>>
        /\ previewOnly = <<>>
        /\ importOnlyChangesRows = <<>>
        /\ importFullRows = <<>>
        /\ changeItems = <<>>
        /\ written = <<>>
        /\ run = 1
        /\ applied = <<>>
        /\ call = NoCall

NextVariants == DecideProduct \/ FinishDecide \/ WriteFile

SpecVariants == InitVariants /\ [][NextVariants]_vars

\* The runner script at the start of its decision loop, readMatrixify
\* having grouped some variant rows.
InitVariantsRun ==
    /\ header = EngineHeader
    /\ \E f \in RecordsOf_run(VariantFirstRows, header) :
       \E m \in SeqsUpTo(RecordsOf_run(VariantMoreRows, header), MaxVariants - 1) :
           products = GroupRows_run(<<>>, <<f>> \o m)
    /\ idx = NoIndex
    /\ metafieldColName = <<>>
    /\ pc = "decide"
    /\ input = <<>>
    /\ lineNo = 0
    /\ pending = ""
    /\ delim = ","
    /\ tested = <<>>
    /\ records = <<>>
    /\ rowLog = <<>>
    /\ error = ""
    /\ k = 0
    /\ previewFull = <<>>
    /\ previewOnly = <<>>
    /\ importOnlyChangesRows = <<>>
    /\ importFullRows = <<>>
    /\ changeItems = <<>>
    /\ written = <<>>
    /\ run = 1
    /\ applied = <<>>
    /\ call = NoCall

NextVariantsRun == DecideProduct_run \/ FinishDecide \/ WriteFile_run

SpecVariantsRun == InitVariantsRun /\ [][NextVariantsRun]_vars

(***************************************************************************)
(* The classifier and the pricing model on their own                       *)
(***************************************************************************)
PureM == {1000000, 100000, 99996, 10000, 1500, 0, -1000}

PureC == {300000, 90000, 27603, 27604, 1000, 0}

PureTagCells ==
    {"", "preloved", "Preloved, standard", "x, PREOWNED / DEFECT", "used, preowned"}

PureCalls ==
    { [fn |-> "determineTypeArigato", args |-> <<M, C, parseTags(t)>>, result |-> <<>>] :
        M \in PureM, C \in PureC, t \in PureTagCells }
    \cup
    { [fn |-> "computePricing", args |-> <<M, C, type>>, result |-> <<>>] :
        M \in PureM, C \in PureC, type \in {"used", "standard", "low-margin", "skip"} }

InitPure ==
    /\ call \in PureCalls
    /\ pc = "call"
    /\ input = <<>>
    /\ Fresh

NextPure == CallDetermineType \/ CallComputePricing

SpecPure == InitPure /\ [][NextPure]_vars

TwiceCalls ==
    { [fn |-> "determineTypeArigato", args |-> <<M, C, parseTags(t)>>, result |-> <<>>] :
        M \in TwiceM, C \in TwiceC, t \in {"", "Sale, standard", "Preloved"} }

InitPureTwice ==
    /\ call \in TwiceCalls
    /\ pc = "call"
    /\ input = <<>>
    /\ Fresh

NextPureTwice == CallDetermineType \/ CallDetermineTypeAgain

SpecPureTwice == InitPureTwice /\ [][NextPureTwice]_vars

(***************************************************************************)
(* The tag reconciler and the price comparison on their own                *)
(***************************************************************************)
MaxTags == 3

DiffTags == {"Sale", "standard", "Used", "LOW-MARGIN", "b2b"}

\* Price texts with the numbers they denote, in thousandths.
MoneyTexts ==
    { <<"100", 100000>>, <<"100.00", 100000>>, <<"100,00", 100000>>, <<" 100 ", 100000>>,
      <<"100.004", 100004>>, <<"99.996", 99996>>, <<"100.006", 100006>>,
      <<"100.01", 100010>>, <<"0", 0>>, <<"0.005", 5>>, <<"0.01", 10>>, <<"-0.004", -4>> }

MoneyNumbers == {100000, 99990, 1000000, 5, 0}

PriceCells == {"100.00", "100", "100.01", "99.996"}

DiffCalls ==
    { [fn |-> "computeTagDiff", args |-> <<parseTags(Join(tags, ", ")), type>>,
       result |-> <<>>] :
        tags \in SeqsUpTo(DiffTags, MaxTags),
        type \in {"used", "standard", "low-margin", "skip"} }
    \cup
    { [fn |-> fn, args |-> <<t[1], n>>, result |-> <<>>] :
        fn \in {"approxEqualMoney", "approxEqualMoney (runner)"},
        t \in MoneyTexts, n \in MoneyNumbers }
    \cup
    { [fn |-> "variantsToUpdate", args |-> <<cells, n>>, result |-> <<>>] :
        cells \in SeqsOfLen(PriceCells, 2), n \in {100000, 99990} }

InitPureDiff ==
    /\ call \in DiffCalls
    /\ pc = "call"
    /\ input = <<>>
    /\ Fresh

NextPureDiff ==
    \/ CallComputeTagDiff
    \/ CallApproxEqualMoney
    \/ CallApproxEqualMoney_run
    \/ CallPriceDecision

SpecPureDiff == InitPureDiff /\ [][NextPureDiff]_vars

(***************************************************************************)
(* Properties                                                              *)
(***************************************************************************)
\* The number of type tags in a tag list, compared case-insensitively.
TypeTagCount(tagsArr) ==
    Cardinality({i \in 1..Len(tagsArr) : ToLower(Trim(tagsArr[i])) \in {"used", "standard", "low-margin"}})

\* All rows of the two instruction lists.
InstructionRows ==
    {importOnlyChangesRows[i] : i \in 1..Len(importOnlyChangesRows)}
    \cup {importFullRows[i] : i \in 1..Len(importFullRows)}

\* C1 (idempotence): once the changed-only instructions of a run have been
\* applied to its input and the engine runs again on the result, every
\* product it has decided has needsChange false, and no change is emitted.
C1_Idempotent ==
    run = 2 =>
        /\ \A i \in 1..Len(previewFull) : ~previewFull[i].needsChange
        /\ previewOnly = <<>>
        /\ importOnlyChangesRows = <<>>
        /\ changeItems = <<>>

\* C1 happens: a second run has finished on aggregates to which a status
\* change, a tag replacement and a variant price were applied.
C1_Witness ==
    /\ run = 2
    /\ pc = "done"
    /\ \E i \in 1..Len(applied) : applied[i].Status = "Draft"
    /\ \E i \in 1..Len(applied) : applied[i].TagsCommand = "REPLACE"
    /\ \E i \in 1..Len(applied) : applied[i].VariantID # "" /\ applied[i].VariantPrice # ""

\* C2 (variant rows carry a price): in the script with the structural
\* check, every row pushed to the changed-only list or to the full list that
\* names a variant has a non-empty Variant Price and Variant Command UPDATE.
C2_VariantRowsPriced ==
    \A row \in InstructionRows :
        row.VariantID # "" => row.VariantPrice # "" /\ row.VariantCommand = "UPDATE"

\* C2 happens: a first run has finished with a changed-only primary row that
\* names no variant, a changed-only row that names one, and a full row that
\* names one.
C2_Witness ==
    /\ run = 1
    /\ pc = "done"
    /\ \E i \in 1..Len(importOnlyChangesRows) :
           importOnlyChangesRows[i].VariantID = "" /\ importOnlyChangesRows[i].Status = "Draft"
    /\ \E i \in 1..Len(importOnlyChangesRows) : importOnlyChangesRows[i].VariantID # ""
    /\ \E i \in 1..Len(importFullRows) : importFullRows[i].VariantID # ""

\* C3 (variant rows carry a price, older script): every row written to the
\* changed-only instruction file that names a variant has a non-empty
\* Variant Price.  The older script breaks this.
C3_VariantRowsPriced_000 ==
    \A f \in 1..Len(written) :
        written[f].path = "matrixify.import.only-changes.csv" =>
            \A i \in 1..Len(written[f].rows) :
                written[f].rows[i].VariantID # "" => written[f].rows[i].VariantPrice # ""

\* C4 (price ceiling): for every regime, M > 0 and C > 0, the price_new that
\* computePricing returns is at most M.  Rounding after the cap breaks this.
C4_PriceCeiling ==
    (/\ pc = "returned"
     /\ call.fn = "computePricing"
     /\ call.args[1] > 0
     /\ call.args[2] > 0
     /\ call.args[3] \in {"used", "standard", "low-margin"})
    => call.result[1].price_new <= call.args[1]

\* C5 as stated (tag exclusivity for every regime decision, skip included):
\* the tag list of every change item has at most one type tag.
C5_ExclusiveAlways ==
    \A i \in 1..Len(changeItems) : TypeTagCount(changeItems[i].desiredTagsArr) <= 1

\* The product aggregate with the id pid.
ProductOf(pid) == products[CHOOSE j \in 1..Len(products) : products[j].productId = pid]

\* C5 as amended (tag exclusivity): for a decision used, standard or
\* low-margin the resulting tag list has exactly one type tag, the desired
\* one, in the change item and in the Tags cell of the full list; for the
\* decision skip the resulting tag list is the current one, unchanged.
C5_ExclusiveWhenTyped ==
    /\ \A i \in 1..Len(changeItems) :
           IF changeItems[i].type \in {"used", "standard", "low-margin"}
           THEN /\ TypeTagCount(changeItems[i].desiredTagsArr) = 1
                /\ \E t \in 1..Len(changeItems[i].desiredTagsArr) :
                       ToLower(Trim(changeItems[i].desiredTagsArr[t])) = changeItems[i].type
           ELSE changeItems[i].desiredTagsArr = ProductOf(changeItems[i].productId).tagsArr
    /\ \A i \in 1..Len(importFullRows) :
           importFullRows[i].TagsCommand = "REPLACE" =>
               TypeTagCount(parseTags(importFullRows[i].Tags)) = 1

\* C5 happens: a product whose current tags hold two type tags got a regime
\* with a type tag, and its change item is there.
C5_Witness ==
    /\ run = 1
    /\ \E i \in 1..Len(changeItems) :
           /\ changeItems[i].type \in {"used", "standard", "low-margin"}
           /\ TypeTagCount(ProductOf(changeItems[i].productId).tagsArr) = 2

\* C6 (no partial output): a run that has met a fatal error has written no
\* file, and a file is written only once every line has been read and every
\* product decided.
C6_NoPartialOutput ==
    /\ (error # "" \/ pc = "aborted") => written = <<>>
    /\ written # <<>> =>
           /\ pc \in {"write", "done"}
           /\ lineNo = Len(input)
           /\ pending = ""
           /\ k = Len(products)
           /\ Len(previewFull) = Len(products)

\* C6 happens: a run aborted on a non-numeric id after it had grouped rows.
C6_Witness == pc = "aborted" /\ error = "id" /\ products # <<>> /\ written = <<>>

\* C7 as stated (row validation, empty ids included): every data record
\* whose product-id cell does not match ^\d+$ aborts the run.
C7_EveryNonNumericAborts ==
    \A i \in 1..Len(rowLog) :
        ~AllDigits(rowLog[i][1]) =>
            rowLog[i][2] = "aborted" /\ i = Len(rowLog) /\ pc = "aborted"

\* The product id main() takes from a product-id cell.
IdOfCell(c) == StripQuotes(Trim(c))

\* C7 as amended (row validation): with id the product-id cell trimmed and
\* stripped of one leading and one trailing quote, a record with an empty id
\* is passed over and the run goes on; a record with a non-empty id that,
\* trimmed, does not match ^\d+$ aborts the run and is not grouped; every
\* other record is grouped under its id.
C7_NonEmptyNonNumericAborts ==
    \A i \in 1..Len(rowLog) :
        IF IdOfCell(rowLog[i][1]) = ""
        THEN rowLog[i][2] = "skipped"
        ELSE IF ~AllDigits(Trim(IdOfCell(rowLog[i][1])))
        THEN /\ rowLog[i][2] = "aborted"
             /\ i = Len(rowLog)
             /\ pc = "aborted"
             /\ error = "id"
             /\ \A j \in 1..Len(products) : products[j].productId # IdOfCell(rowLog[i][1])
        ELSE /\ rowLog[i][2] = "grouped"
             /\ \E j \in 1..Len(products) : products[j].productId = IdOfCell(rowLog[i][1])

\* C7 happens: a record with an empty id was passed over, a later record
\* with a non-numeric id aborted the run.
C7_Witness ==
    /\ pc = "aborted"
    /\ error = "id"
    /\ \E i \in 1..Len(rowLog) : rowLog[i] = <<"", "skipped">>
    /\ rowLog[Len(rowLog)][1] = "x7"

\* The eight required columns.
RequiredColumns ==
    {"id", "tags", "status", "variant id", "variant position", "variant price",
     "variant compare at price", "variant cost"}

\* A required column is missing from the header cells h, names compared
\* case-insensitively after trimming.
LacksRequired(h) ==
    \E c \in RequiredColumns : \A i \in 1..Len(h) : ToLower(Trim(stripBom(h[i]))) # c

\* C8 (header validation): a header record that lacks a required column
\* aborts the run at the header: only the header record was handed to the
\* parser, no data record was looked at, no product aggregate exists; and
\* the run aborts for this reason in no other case.
C8_HeaderValidation ==
    /\ (header # <<>> /\ LacksRequired(header)) =>
           /\ pc = "aborted"
           /\ error = "columns"
           /\ Len(records) = 1
           /\ rowLog = <<>>
           /\ products = <<>>
           /\ idx = NoIndex
    /\ error = "columns" => header # <<>> /\ LacksRequired(header)

\* C8 happens: a run aborted at a header without Variant Cost with data
\* lines still unread.
C8_Witness ==
    /\ pc = "aborted"
    /\ error = "columns"
    /\ lineNo < Len(input)
    /\ Len(header) = 7

\* The buffers of the tested list that were found complete, in order.
RECURSIVE CompleteOnes(_)
CompleteOnes(ts) ==
    IF ts = <<>> THEN <<>>
    ELSE (IF Head(ts)[2] THEN <<Head(ts)[1]>> ELSE <<>>) \o CompleteOnes(Tail(ts))

\* C9 (record completeness): a buffer is found complete exactly when its
\* number of quote characters is even; the records handed to the row parser
\* are the buffers found complete; a buffer found incomplete stays pending,
\* and the next buffer tested is that buffer, a newline and the next
\* physical line.
C9_RecordCompleteness ==
    /\ \A i \in 1..Len(tested) :
           tested[i][2] <=> (CountChar(tested[i][1], "\"") % 2 = 0)
    /\ records = CompleteOnes(tested)
    /\ \A i \in 1..Len(tested) :
           ~tested[i][2] =>
               IF i = Len(tested)
               THEN pending = tested[i][1]
               ELSE /\ tested[i + 1][3] = tested[i][3] + 1
                    /\ tested[i + 1][1] =
                           tested[i][1] \o "\n" \o stripBom(input[tested[i + 1][3]])
    /\ (tested = <<>> \/ tested[Len(tested)][2]) => pending = ""

\* C9 happens: a record that spans three physical lines and holds an
\* escaped quote was handed to the row parser.
C9_Witness ==
    \E i \in 1..Len(records) :
        /\ CountChar(records[i], "\n") = 2
        /\ CountChar(records[i], "\"") = 4

\* A gateway tag is in the list, compared case-insensitively.
HasGatewayTag(tagsArr) ==
    \E i \in 1..Len(tagsArr) : ToLower(tagsArr[i]) \in {"preloved", "preowned / defect"}

\* C10 (classifier decision order): skip whenever M <= 0 or C <= 0, gateway
\* tag or not; otherwise used whenever a gateway tag is present; otherwise
\* standard iff the margin G >= 0 and low-margin iff G < 0; always one of the
\* four regimes.
C10_DecisionOrder ==
    (pc = "returned" /\ call.fn = "determineTypeArigato") =>
        LET M == call.args[1]
            C == call.args[2]
            tagsArr == call.args[3]
            r == call.result[1]
        IN  /\ r \in {"skip", "used", "standard", "low-margin"}
            /\ (M <= 0 \/ C <= 0) => r = "skip"
            /\ (M > 0 /\ C > 0 /\ HasGatewayTag(tagsArr)) => r = "used"
            /\ (M > 0 /\ C > 0 /\ ~HasGatewayTag(tagsArr)) =>
                   /\ r = "standard" <=> MarginG(M, C) >= 0
                   /\ r = "low-margin" <=> MarginG(M, C) < 0

\* C10 happens: the classifier returned skip for a missing reference price
\* although a gateway tag was present.
C10_Witness ==
    /\ pc = "returned"
    /\ call.fn = "determineTypeArigato"
    /\ call.args[1] <= 0
    /\ HasGatewayTag(call.args[3])
    /\ call.result = <<"skip">>

\* C11 (regime monotonicity): for a cost C > 0 and a tag list without
\* gateway tags, if the classifier returned standard for M1 and is called
\* again with M2 > M1 and the same cost and tags, it returns standard.
C11_RegimeMonotone ==
    (/\ pc = "returned twice"
     /\ call.args[2] > 0
     /\ ~HasGatewayTag(call.args[3])
     /\ call.result[1] = "standard"
     /\ call.args[1] > call.args[4])
    => call.result[2] = "standard"

\* C11 happens: the classifier returned low-margin just below the point where
\* the margin changes sign, and standard for a higher reference price after
\* it had returned standard just above that point.
C11_Witness ==
    /\ pc = "returned twice"
    /\ call.args[2] = 300000
    /\ call.args[3] = <<"Sale", "standard">>
    /\ call.args[4] = 766161
    /\ call.args[1] = 1000000
    /\ call.result = <<"standard", "standard">>
    /\ determineTypeArigato(766160, 300000, call.args[3]) = "low-margin"

\* C12 (worked classification scenarios): M = 1000, C = 300 without tags is
\* standard; M = 1000, C = 300 with the tag preloved is used; M = 100, C = 90
\* without tags has the negative margin -62.39625 and is low-margin; the constants are
\* d_max 0.51, ship_cost 12.9, cust_ship 8.5, aff_rate 0.12, other_rate 0.0455.
C12_WorkedScenarios ==
    (pc = "returned" /\ call.fn = "determineTypeArigato") =>
        /\ ClassifierConst = [d_max |-> 510000, ship_cost |-> 12900, cust_ship |-> 8500,
                              aff_rate |-> 120000, other_rate |-> 45500]
        /\ call.args = <<1000000, 300000, <<>>>> => call.result = <<"standard">>
        /\ call.args = <<1000000, 300000, <<"preloved">>>> => call.result = <<"used">>
        /\ call.args = <<100000, 90000, <<>>>> =>
               /\ call.result = <<"low-margin">>
               /\ MarginG(100000, 90000) < 0
               /\ MarginG(100000, 90000) = -62396250

\* C12 happens: the classifier has returned for the second scenario.
C12_Witness ==
    /\ pc = "returned"
    /\ call.fn = "determineTypeArigato"
    /\ call.args = <<1000000, 300000, <<"preloved">>>>
    /\ call.result = <<"used">>

\* The base variant of p has no reference price above 0 or no cost above 0.
MissingPriceOrCost(p) ==
    LET b == p.variants[BaseIndex(p.variants)]
    IN  \/ b.compareAt = <<>> \/ b.compareAt[1] <= 0
        \/ b.cost = <<>> \/ b.cost[1] <= 0

\* The draft decision as the inputs of p call for it.
DraftCalledFor(p) == MissingPriceOrCost(p) /\ ToLower(p.status) # "draft"

\* C13 as stated (draft decision): for every product decided so far doDraft
\* is true iff reference price or cost of the base variant is missing or not
\* above 0 and the status is not draft in any casing, and the Status cell of
\* each of its rows is "Draft" iff doDraft and empty otherwise.
C13_DraftEveryProduct ==
    /\ \A i \in 1..Len(previewFull) :
           previewFull[i].doDraft <=> DraftCalledFor(ProductOf(previewFull[i].productId))
    /\ \A i \in 1..k :
           \E j \in 1..Len(importFullRows) :
               /\ importFullRows[j].ID = products[i].productId
               /\ importFullRows[j].Status = (IF DraftCalledFor(products[i]) THEN "Draft" ELSE "")

\* C13 as amended (draft decision): the same for every product that is not
\* passed over for a cnfdnt tag; for a product passed over doDraft is false
\* and no row is emitted.
C13_DraftDecision ==
    /\ \A i \in 1..Len(previewFull) :
           previewFull[i].doDraft <=>
               /\ ~hasCnfdnt(ProductOf(previewFull[i].productId).tagsArr)
               /\ DraftCalledFor(ProductOf(previewFull[i].productId))
    /\ \A j \in 1..Len(importFullRows) :
           /\ ~hasCnfdnt(ProductOf(importFullRows[j].ID).tagsArr)
           /\ importFullRows[j].Status \in {"Draft", ""}
           /\ importFullRows[j].Status = "Draft" <=> DraftCalledFor(ProductOf(importFullRows[j].ID))
    /\ \A j \in 1..Len(importOnlyChangesRows) :
           /\ ~hasCnfdnt(ProductOf(importOnlyChangesRows[j].ID).tagsArr)
           /\ importOnlyChangesRows[j].Status \in {"Draft", ""}
           /\ importOnlyChangesRows[j].Status = "Draft"
                  <=> DraftCalledFor(ProductOf(importOnlyChangesRows[j].ID))
    /\ \A i \in 1..k :
           ~hasCnfdnt(products[i].tagsArr) =>
               \E j \in 1..Len(importFullRows) : importFullRows[j].ID = products[i].productId

\* C13 happens: a product without reference price whose status was Active
\* got its Draft row, the row was applied, and in the next run the product,
\* its status now Draft in another casing than the marker compared with, is
\* left alone.
C13_Witness ==
    /\ \E j \in 1..Len(applied) :
           /\ applied[j].Status = "Draft"
           /\ \E i \in 1..Len(previewFull) :
                  /\ previewFull[i].productId = applied[j].ID
                  /\ ~previewFull[i].doDraft
                  /\ previewFull[i].status_current = "Draft"
                  /\ MissingPriceOrCost(ProductOf(previewFull[i].productId))

\* The first row for the product pid in rows; rows has one.
FirstRowOf(rows, pid) ==
    rows[CHOOSE j \in 1..Len(rows) :
            rows[j].ID = pid /\ \A h \in 1..(j - 1) : rows[h].ID # pid]

\* The draft decision as the inputs of p call for it, in the runner script.
DraftCalledFor_run(p) ==
    LET b == pickBaseVariant(p)[1]
    IN  /\ \/ b.compareAt = <<>> \/ b.compareAt[1] <= 0
           \/ b.cost = <<>> \/ b.cost[1] <= 0
        /\ ToLower(p.status) # "draft"

\* C13 in the runner script (draft decision): for every product decided so
\* far doDraft is true iff reference price or cost of the base variant is
\* missing or not above 0 and the status is not draft in any casing; the
\* Status cell of the product's first row in the full list is "Draft" iff
\* doDraft and empty otherwise, and so is that of its first changed-only row.
C13_DraftDecision_run ==
    \A i \in 1..k :
        /\ previewFull[i].productId = products[i].productId
        /\ previewFull[i].doDraft <=> DraftCalledFor_run(products[i])
        /\ FirstRowOf(importFullRows, products[i].productId).Status
               = (IF DraftCalledFor_run(products[i]) THEN "Draft" ELSE "")
        /\ \A j \in 1..Len(importOnlyChangesRows) :
               importOnlyChangesRows[j].ID = products[i].productId =>
                   FirstRowOf(importOnlyChangesRows, products[i].productId).Status
                       = (IF DraftCalledFor_run(products[i]) THEN "Draft" ELSE "")

\* C13 happens in the runner script: a product without reference price whose
\* status cell is empty has its Draft row, a product without reference price
\* whose status is draft has none.
C13_Witness_run ==
    /\ \E j \in 1..Len(importOnlyChangesRows) :
           /\ importOnlyChangesRows[j].Status = "Draft"
           /\ ProductOf(importOnlyChangesRows[j].ID).status = ""
    /\ \E i \in 1..k :
           /\ products[i].status = "draft"
           /\ pickBaseVariant(products[i])[1].compareAt = <<>>
           /\ ~previewFull[i].doDraft

\* The base variant of p has no reference price above 0 or no cost above 0,
\* in the runner script.
MissingPriceOrCost_run(p) ==
    LET b == pickBaseVariant(p)[1]
    IN  \/ b.compareAt = <<>> \/ b.compareAt[1] <= 0
        \/ b.cost = <<>> \/ b.cost[1] <= 0

\* Nothing but the status is set in the row r.
OnlyStatusSet(r) ==
    /\ r.Tags = "" /\ r.TagsCommand = ""
    /\ r.VariantID = "" /\ r.VariantCommand = "" /\ r.VariantPrice = ""

\* C14 (skip changes nothing but status): a product decided so far whose base
\* reference price or cost is missing has the regime skip, no computed price
\* and no computed advertised-from price, its tag, price and advertised-price
\* decisions are false, and every row emitted for it, in the changed-only
\* and in the full list, has empty Tags, Tags Command, Variant ID, Variant
\* Command and Variant Price.
C14_SkipOnlyStatus ==
    \A i \in 1..k :
        MissingPriceOrCost_run(products[i]) =>
            /\ previewFull[i].productId = products[i].productId
            /\ previewFull[i].type = "skip"
            /\ previewFull[i].price_new = "" /\ previewFull[i].as_low_as_new = ""
            /\ ~previewFull[i].doTags /\ ~previewFull[i].doPrice /\ ~previewFull[i].doMetafield
            /\ \E j \in 1..Len(importFullRows) : importFullRows[j].ID = products[i].productId
            /\ \A j \in 1..Len(importFullRows) :
                   importFullRows[j].ID = products[i].productId => OnlyStatusSet(importFullRows[j])
            /\ \A j \in 1..Len(importOnlyChangesRows) :
                   importOnlyChangesRows[j].ID = products[i].productId =>
                       OnlyStatusSet(importOnlyChangesRows[j])

\* C14 happens: a product without reference price that has a type tag, an
\* advertised-from value and two variants with an id and a price got its
\* Draft row in the changed-only list and two rows in the full list.
C14_Witness ==
    \E i \in 1..k :
        /\ MissingPriceOrCost_run(products[i])
        /\ splitTags(products[i].tagsRaw) = <<"Used", "standard">>
        /\ products[i].asLowAsRaw = "490"
        /\ Len(FilterWithId(products[i].variants)) = 2
        /\ \E j \in 1..Len(importOnlyChangesRows) :
               /\ importOnlyChangesRows[j].ID = products[i].productId
               /\ importOnlyChangesRows[j].Status = "Draft"
        /\ Cardinality({j \in 1..Len(importFullRows) :
                           importFullRows[j].ID = products[i].productId}) = 2

\* C14 in the main script: the same for the aggregates of its read loop; a
\* product passed over for a cnfdnt tag has the regime skip and no rows.
C14_SkipOnlyStatus_main ==
    \A i \in 1..Len(previewFull) :
        MissingPriceOrCost(ProductOf(previewFull[i].productId)) =>
            /\ previewFull[i].type = "skip"
            /\ previewFull[i].price_new = "" /\ previewFull[i].as_low_as_new = ""
            /\ ~previewFull[i].doTags /\ ~previewFull[i].doPrice /\ ~previewFull[i].doMetafield
            /\ \A j \in 1..Len(importFullRows) :
                   importFullRows[j].ID = previewFull[i].productId =>
                       OnlyStatusSet(importFullRows[j])
            /\ \A j \in 1..Len(importOnlyChangesRows) :
                   importOnlyChangesRows[j].ID = previewFull[i].productId =>
                       OnlyStatusSet(importOnlyChangesRows[j])

\* C14 happens in the main script: a product without reference price that has
\* a type tag got its Draft row.
C14_Witness_main ==
    \E i \in 1..Len(previewFull) :
        /\ MissingPriceOrCost(ProductOf(previewFull[i].productId))
        /\ ProductOf(previewFull[i].productId).tagsArr = <<"Used", "standard">>
        /\ \E j \in 1..Len(importOnlyChangesRows) :
               /\ importOnlyChangesRows[j].ID = previewFull[i].productId
               /\ importOnlyChangesRows[j].Status = "Draft"

\* The positions of the tags of cur that are no type tag in any casing.
NonTypePositions(cur) ==
    {i \in 1..Len(cur) : ToLower(Trim(cur[i])) \notin {"used", "standard", "low-margin"}}

\* The n-th smallest element of the set S of numbers.
NthOf(S, n) == CHOOSE i \in S : Cardinality({j \in S : j <= i}) = n

\* C15 (tag reconciler, result list): computeTagDiff called with a desired
\* regime used, standard or low-margin returns as desiredTagsArr the current
\* tags that are no type tag in any casing, in their order and casing,
\* followed by the desired type tag once, as the last element; called with
\* skip it returns the current tags unchanged.
C15_ResultList ==
    (pc = "returned" /\ call.fn = "computeTagDiff") =>
        LET cur == call.args[1]
            desired == call.args[2]
            res == call.result[1].desiredTagsArr
            keep == NonTypePositions(cur)
        IN  IF desired \in {"used", "standard", "low-margin"}
            THEN /\ Len(res) = Cardinality(keep) + 1
                 /\ res[Len(res)] = desired
                 /\ \A n \in 1..Cardinality(keep) : res[n] = cur[NthOf(keep, n)]
                 /\ TypeTagCount(res) = 1
            ELSE res = cur

\* C15 happens: the current tags Sale, standard reconciled to low-margin give
\* Sale, low-margin; a list holding two type tags in other casings around a
\* plain tag is reconciled; a call with skip has returned.
C15_Witness ==
    /\ pc = "returned"
    /\ call.fn = "computeTagDiff"
    /\ call.args = <<<<"Sale", "standard">>, "low-margin">>
    /\ call.result[1].desiredTagsArr = <<"Sale", "low-margin">>
    /\ computeTagDiff(<<"Used", "b2b", "LOW-MARGIN">>, "used").desiredTagsArr = <<"b2b", "used">>
    /\ computeTagDiff(<<"Used", "Sale">>, "skip").desiredTagsArr = <<"Used", "Sale">>

\* The tag t occurs in the tag list cur, in any casing.
Occurs(cur, t) == \E n \in 1..Len(cur) : ToLower(Trim(cur[n])) = t

\* The type tags other than desired that occur in cur.
OtherTypesIn(cur, desired) ==
    {t \in {"used", "standard", "low-margin"} : t # desired /\ Occurs(cur, t)}

\* The elements of the list seq, which has no repetitions, are those of S.
ListsExactly(seq, S) ==
    /\ Len(seq) = Cardinality(S)
    /\ {seq[n] : n \in 1..Len(seq)} = S

\* C16 (tag reconciler, diff): for a product decided with the regime used,
\* standard or low-margin, toAdd is the desired type tag iff no current tag
\* equals it in any casing and is empty otherwise, toRemove lists exactly
\* the other type tags that occur in the current tags, doTags is true iff
\* one of the two is non-empty, and the changed-only list has a row of the
\* product with the tags and the command REPLACE iff doTags; a row without
\* that command has no tags.
C16_TagDiff ==
    /\ \A i \in 1..Len(previewFull) :
           previewFull[i].type \in {"used", "standard", "low-margin"} =>
               LET pr == previewFull[i]
                   cur == ProductOf(pr.productId).tagsArr
               IN  /\ pr.tags_to_add = (IF Occurs(cur, pr.type) THEN "" ELSE pr.type)
                   /\ IF pr.tags_to_remove = "" THEN OtherTypesIn(cur, pr.type) = {}
                      ELSE ListsExactly(Split(pr.tags_to_remove, "|"),
                                        OtherTypesIn(cur, pr.type))
                   /\ pr.doTags <=> (~Occurs(cur, pr.type) \/ OtherTypesIn(cur, pr.type) # {})
                   /\ pr.doTags <=>
                          \E j \in 1..Len(importOnlyChangesRows) :
                              /\ importOnlyChangesRows[j].ID = pr.productId
                              /\ importOnlyChangesRows[j].TagsCommand = "REPLACE"
                              /\ importOnlyChangesRows[j].Tags # ""
    /\ \A j \in 1..Len(importOnlyChangesRows) :
           /\ importOnlyChangesRows[j].TagsCommand \in {"REPLACE", ""}
           /\ importOnlyChangesRows[j].TagsCommand = "" => importOnlyChangesRows[j].Tags = ""
    /\ \A i \in 1..Len(changeItems) :
           changeItems[i].doTags =>
               \E j \in 1..Len(importOnlyChangesRows) :
                   /\ importOnlyChangesRows[j].ID = changeItems[i].productId
                   /\ importOnlyChangesRows[j].Tags = Join(changeItems[i].desiredTagsArr, ", ")

\* C16 happens: a product tagged Used and standard was decided low-margin,
\* low-margin is to be added, used and standard are to be removed, and its
\* row replaces the tags by low-margin.
C16_Witness ==
    \E i \in 1..Len(previewFull) :
        /\ ProductOf(previewFull[i].productId).tagsArr = <<"Used", "standard">>
        /\ previewFull[i].type = "low-margin"
        /\ previewFull[i].tags_to_add = "low-margin"
        /\ previewFull[i].tags_to_remove = "used|standard"
        /\ \E j \in 1..Len(importOnlyChangesRows) :
               /\ importOnlyChangesRows[j].ID = previewFull[i].productId
               /\ importOnlyChangesRows[j].TagsCommand = "REPLACE"
               /\ importOnlyChangesRows[j].Tags = "low-margin"

\* C16 for computeTagDiff on its own: toAdd, toRemove and doTags of a call
\* with a desired regime used, standard or low-margin.
C16_TagDiff_call ==
    (/\ pc = "returned"
     /\ call.fn = "computeTagDiff"
     /\ call.args[2] \in {"used", "standard", "low-margin"}) =>
        LET cur == call.args[1]
            desired == call.args[2]
            res == call.result[1]
        IN  /\ res.tags_to_add = (IF Occurs(cur, desired) THEN <<>> ELSE <<desired>>)
            /\ ListsExactly(res.tags_to_remove, OtherTypesIn(cur, desired))
            /\ res.doTags <=> (res.tags_to_add # <<>> \/ res.tags_to_remove # <<>>)

\* C16 happens for computeTagDiff on its own: the desired tag is there in
\* another casing beside another type tag, so nothing is added and one tag
\* is removed.
C16_Witness_call ==
    /\ pc = "returned"
    /\ call.fn = "computeTagDiff"
    /\ call.args = <<<<"Used", "LOW-MARGIN", "Sale">>, "low-margin">>
    /\ call.result[1].tags_to_add = <<>>
    /\ call.result[1].tags_to_remove = <<"used">>
    /\ call.result[1].doTags

\* The price (a number or null) is within 0.005 of the number pn.
Near(price, pn) == price # <<>> /\ price[1] - pn < 5 /\ pn - price[1] < 5

\* The variant ids scheduled for a price update of the product pid: those of
\* its change item; a product without change item has none scheduled.
ScheduledIds(pid) ==
    UNION { {changeItems[i].variantsToUpdate[n] : n \in 1..Len(changeItems[i].variantsToUpdate)} :
              i \in {h \in 1..Len(changeItems) : changeItems[h].productId = pid} }

\* C17 as stated (price decision): for a product with a computed price_new
\* the variants scheduled for a price update are all the variants of the
\* product whose current price is not within 0.005 of price_new, and
\* doPrice is true iff there is such a variant.
C17_AllVariantsScheduled ==
    \A i \in 1..Len(previewFull) :
        previewFull[i].price_new # "" =>
            LET p == ProductOf(previewFull[i].productId)
                pn == toNumberOrNull(previewFull[i].price_new)[1]
                off == {n \in 1..Len(p.variants) : ~Near(p.variants[n].price, pn)}
            IN  /\ {n \in 1..Len(p.variants) : p.variants[n].variantId \in ScheduledIds(p.productId)}
                       = off
                /\ previewFull[i].doPrice <=> off # {}

\* C17 as amended (price decision): the same with the variants that have a
\* variant id in place of all the variants.
C17_PriceDecision ==
    \A i \in 1..Len(previewFull) :
        previewFull[i].price_new # "" =>
            LET p == ProductOf(previewFull[i].productId)
                pn == toNumberOrNull(previewFull[i].price_new)[1]
                off == {n \in 1..Len(p.variants) :
                           p.variants[n].variantId # "" /\ ~Near(p.variants[n].price, pn)}
            IN  /\ ScheduledIds(p.productId) = {p.variants[n].variantId : n \in off}
                /\ previewFull[i].doPrice <=> off # {}

\* C17 happens: of two variants with an id one has the computed price, in
\* another text form, and the other has not; the other one alone is scheduled.
C17_Witness ==
    \E i \in 1..Len(changeItems) :
        /\ changeItems[i].variantsToUpdate = <<"11">>
        /\ \E n \in 1..Len(ProductOf(changeItems[i].productId).variants) :
               /\ ProductOf(changeItems[i].productId).variants[n].variantId = "12"
               /\ Near(ProductOf(changeItems[i].productId).variants[n].price,
                       changeItems[i].desiredPriceNew[1])

\* C17 in the runner script: the variants named in the changed-only rows of
\* a product with a computed price_new are the variants with an id whose
\* price is not within 0.005 of it, and doPrice is true iff there is one.
C17_PriceDecision_run ==
    \A i \in 1..k :
        previewFull[i].price_new # "" =>
            LET p == products[i]
                pn == toNumberOrNull_run(previewFull[i].price_new)[1]
                off == {n \in 1..Len(p.variants) :
                           p.variants[n].variantId # "" /\ ~Near(p.variants[n].price, pn)}
            IN  /\ {importOnlyChangesRows[j].VariantID :
                       j \in {h \in 1..Len(importOnlyChangesRows) :
                                 /\ importOnlyChangesRows[h].ID = p.productId
                                 /\ importOnlyChangesRows[h].VariantCommand = "UPDATE"}}
                       = {p.variants[n].variantId : n \in off}
                /\ previewFull[i].doPrice <=> off # {}

\* C17 happens in the runner script: a product has a variant without id whose
\* price is not the computed one, and a variant with an id is scheduled.
C17_Witness_run ==
    \E i \in 1..k :
        /\ previewFull[i].doPrice
        /\ \E n \in 1..Len(products[i].variants) :
               /\ products[i].variants[n].variantId = ""
               /\ ~Near(products[i].variants[n].price,
                        toNumberOrNull_run(previewFull[i].price_new)[1])

\* The number the price text t of MoneyTexts denotes.
ValueOfText(t) == (CHOOSE m \in MoneyTexts : m[1] = t)[2]

C19_NeverCleared ==
    \A i \in 1..Len(previewFull) :
        previewFull[i].type # "standard" =>
            /\ ~previewFull[i].doMetafield
            /\ \A r \in InstructionRows :
                   r.ID = previewFull[i].productId =>
                       r.Metafield = ProductOf(previewFull[i].productId).asLowAsCurrent

\* C19 happens: a product decided used whose advertised-from value is 490 has
\* rows in both lists, a price row among them, and each carries 490.
C19_Witness ==
    \E i \in 1..Len(previewFull) :
        /\ previewFull[i].type = "used"
        /\ ProductOf(previewFull[i].productId).asLowAsCurrent = "490"
        /\ \E j \in 1..Len(importOnlyChangesRows) :
               /\ importOnlyChangesRows[j].ID = previewFull[i].productId
               /\ importOnlyChangesRows[j].VariantCommand = "UPDATE"
               /\ importOnlyChangesRows[j].Metafield = "490"
        /\ \E j \in 1..Len(importFullRows) :
               /\ importFullRows[j].ID = previewFull[i].productId
               /\ importFullRows[j].Metafield = "490"

\* C20 (needsChange): for every product decided so far needsChange is the
\* disjunction of the draft, tag, price and advertised-price decisions, and
\* the product has a row in the changed-only instruction list, and one in the
\* changed-only preview, iff needsChange is true.
C20_NeedsChange ==
    \A i \in 1..Len(previewFull) :
        LET pr == previewFull[i]
        IN  /\ pr.needsChange <=> (pr.doDraft \/ pr.doTags \/ pr.doPrice \/ pr.doMetafield)
            /\ pr.needsChange <=>
                   \E j \in 1..Len(importOnlyChangesRows) :
                       importOnlyChangesRows[j].ID = pr.productId
            /\ pr.needsChange <=>
                   \E j \in 1..Len(previewOnly) : previewOnly[j] = pr

\* C20 happens: a product has the advertised-price decision as its only true
\* decision, and it has its row in the changed-only instruction list and in
\* the changed-only preview.
C20_Witness ==
    \E i \in 1..Len(previewFull) :
        /\ previewFull[i].doMetafield
        /\ ~previewFull[i].doDraft /\ ~previewFull[i].doTags /\ ~previewFull[i].doPrice
        /\ \E j \in 1..Len(importOnlyChangesRows) :
               importOnlyChangesRows[j].ID = previewFull[i].productId
        /\ \E j \in 1..Len(previewOnly) : previewOnly[j] = previewFull[i]

(***************************************************************************)
(* Rows of the changed-only file                                           *)
(***************************************************************************)
\* The rows of the product pid in the changed-only list, in order.
ChangedRowsOf(pid) == SelectSeq(importOnlyChangesRows, LAMBDA r : r.ID = pid)

\* The variants (their indices) of the i-th product that need a price update:
\* those with an id whose price is not within 0.005 of the computed price.
NeedUpdate(i) ==
    IF previewFull[i].price_new = "" THEN {}
    ELSE {n \in 1..Len(products[i].variants) :
             /\ products[i].variants[n].variantId # ""
             /\ ~Near(products[i].variants[n].price,
                      toNumberOrNull(previewFull[i].price_new)[1])}

\* The row carries the variant id vid and the computed price of the i-th
\* product.
CarriesPrice(row, vid, i) ==
    /\ vid # ""
    /\ row.VariantID = vid
    /\ row.VariantPrice # ""
    /\ previewFull[i].price_new # ""
    /\ toNumberOrNull(row.VariantPrice) = toNumberOrNull(previewFull[i].price_new)

\* The rows after the first one name each variant of S in a row of its own
\* and nothing else.
OneRowEach(rows, vs, S) ==
    /\ Len(rows) = 1 + Cardinality(S)
    /\ \A x \in {rows[j].VariantID : j \in 2..Len(rows)} \cup {vs[n].variantId : n \in S} :
           Cardinality({j \in 2..Len(rows) : rows[j].VariantID = x})
               = Cardinality({n \in S : vs[n].variantId = x})

\* The id the primary row may carry: the base variant's id or, when it has
\* none, the first variant's id.
PrimaryIdOf(vs) ==
    IF vs[BaseIndex(vs)].variantId # "" THEN vs[BaseIndex(vs)].variantId ELSE vs[1].variantId

\* C21 as stated (row decomposition): a product with needsChange has in the
\* changed-only list one primary row followed by one row for each variant
\* that needs a price update other than the base variant; the primary row
\* carries the base variant's id and the new price iff the base variant
\* needs a price update; every variant that needs a price update is named in
\* exactly one row of the product.
C21_BaseVariantRows ==
    \A i \in 1..k :
        previewFull[i].needsChange =>
            LET vs == products[i].variants
                b == BaseIndex(vs)
                rows == ChangedRowsOf(products[i].productId)
            IN  /\ OneRowEach(rows, vs, NeedUpdate(i) \ {b})
                /\ (b \in NeedUpdate(i)) <=> CarriesPrice(rows[1], vs[b].variantId, i)
                /\ \A n \in NeedUpdate(i) :
                       Cardinality({j \in 1..Len(rows) : rows[j].VariantID = vs[n].variantId}) = 1

\* C21 as amended (row decomposition): the same with the primary variant id,
\* the base variant's id or else the first variant's id, in place of the
\* base variant: one primary row, then one row for each variant that needs a
\* price update and has another id than the primary one; the primary row
\* carries the primary id and the new price iff a variant with that id needs
\* a price update, and no variant otherwise; a variant that needs a price
\* update is named in the primary row or in one row of its own.
C21_RowDecomposition ==
    \A i \in 1..k :
        previewFull[i].needsChange =>
            LET vs == products[i].variants
                pv == PrimaryIdOf(vs)
                own == {n \in NeedUpdate(i) : vs[n].variantId # pv}
                rows == ChangedRowsOf(products[i].productId)
            IN  /\ OneRowEach(rows, vs, own)
                /\ (NeedUpdate(i) \ own # {}) <=> CarriesPrice(rows[1], pv, i)
                /\ NeedUpdate(i) \ own = {} => rows[1].VariantID = "" /\ rows[1].VariantPrice = ""
                /\ \A n \in own : rows[1].VariantID # vs[n].variantId

\* C21 happens: the base variant of a product has no id, the primary row
\* carries the price update of the first variant, and the one other variant
\* that needs a price update has the one row that follows.
C21_Witness ==
    \E i \in 1..k :
        /\ previewFull[i].needsChange
        /\ products[i].variants[BaseIndex(products[i].variants)].variantId = ""
        /\ Cardinality(NeedUpdate(i)) = 2
        /\ Len(ChangedRowsOf(products[i].productId)) = 2
        /\ CarriesPrice(ChangedRowsOf(products[i].productId)[1], products[i].variants[1].variantId, i)
        /\ ChangedRowsOf(products[i].productId)[2].VariantID # products[i].variants[1].variantId

\* The rows of the list rows that are not the first row of their product.
NonPrimary(rows) == {j \in 1..Len(rows) : \E h \in 1..(j - 1) : rows[h].ID = rows[j].ID}

\* The row is a variant price update and nothing else, the advertised-from
\* cell apart: no tags, no tags command, no status; the product id, the
\* command, a variant id, the variant command and the product's new price.
OnlyPriceUpdate(r) ==
    /\ r.Tags = "" /\ r.TagsCommand = "" /\ r.Status = ""
    /\ r.ID # "" /\ r.Command = "UPDATE"
    /\ r.VariantID # "" /\ r.VariantCommand = "UPDATE"
    /\ \E i \in 1..k :
           /\ products[i].productId = r.ID
           /\ previewFull[i].price_new # ""
           /\ r.VariantPrice # ""
           /\ toNumberOrNull(r.VariantPrice) = toNumberOrNull(previewFull[i].price_new)

\* C22 as stated (secondary rows): every non-primary row of the changed-only
\* list and of the full list is a variant price update and nothing else, and
\* its advertised-from cell is empty.
C22_SecondaryRowsBare ==
    /\ \A j \in NonPrimary(importOnlyChangesRows) :
           OnlyPriceUpdate(importOnlyChangesRows[j]) /\ importOnlyChangesRows[j].Metafield = ""
    /\ \A j \in NonPrimary(importFullRows) :
           OnlyPriceUpdate(importFullRows[j]) /\ importFullRows[j].Metafield = ""

\* C22 as amended (secondary rows): every non-primary row of the
\* changed-only list and of the full list is a variant price update and
\* nothing else, and its advertised-from cell is the one of the primary row
\* of its product.
C22_SecondaryRows ==
    /\ \A j \in NonPrimary(importOnlyChangesRows) :
           /\ OnlyPriceUpdate(importOnlyChangesRows[j])
           /\ importOnlyChangesRows[j].Metafield
                  = FirstRowOf(importOnlyChangesRows, importOnlyChangesRows[j].ID).Metafield
    /\ \A j \in NonPrimary(importFullRows) :
           /\ OnlyPriceUpdate(importFullRows[j])
           /\ importFullRows[j].Metafield
                  = FirstRowOf(importFullRows, importFullRows[j].ID).Metafield

\* C22 happens: the primary row of a product replaces its tags and sets an
\* advertised-from value, and a secondary row of the product in each list
\* carries that value and no tags.
C22_Witness ==
    /\ \E j \in NonPrimary(importOnlyChangesRows) :
           /\ FirstRowOf(importOnlyChangesRows, importOnlyChangesRows[j].ID).TagsCommand = "REPLACE"
           /\ importOnlyChangesRows[j].Metafield # ""
           /\ importOnlyChangesRows[j].Tags = ""
    /\ \E j \in NonPrimary(importFullRows) :
           /\ importFullRows[j].Metafield # ""
           /\ importFullRows[j].Tags = ""

\* C22 in the runner script: the product fields are attached to the first
\* row of a product only, so every non-primary row of its two lists has
\* empty tags, tags command, status and advertised-from cells.
C22_SecondaryRows_run ==
    \A rows \in {importOnlyChangesRows, importFullRows} :
        \A j \in NonPrimary(rows) :
            /\ rows[j].Tags = "" /\ rows[j].TagsCommand = "" /\ rows[j].Status = ""
            /\ rows[j].Metafield = ""

\* C22 happens in the runner script: a non-primary row that updates a
\* variant price follows a primary row that replaces the tags.
C22_Witness_run ==
    \E j \in NonPrimary(importOnlyChangesRows) :
        /\ importOnlyChangesRows[j].VariantCommand = "UPDATE"
        /\ FirstRowOf(importOnlyChangesRows, importOnlyChangesRows[j].ID).TagsCommand = "REPLACE"

\* The rows of the list rows follow the order of first encounter of their
\* products: products is in that order.
ProductOrder(rows) ==
    \A j1, j2 \in 1..Len(rows) :
        j1 < j2 =>
            \E i1, i2 \in 1..Len(products) :
                /\ products[i1].productId = rows[j1].ID
                /\ products[i2].productId = rows[j2].ID
                /\ i1 <= i2

\* Of two rows of one product that name a variant, the earlier one names the
\* base variant or a variant at a position not after the later one's, which
\* is not the base variant.
VariantOrder(rows) ==
    \A j1, j2 \in 1..Len(rows) :
        j1 < j2 /\ rows[j1].ID = rows[j2].ID /\ rows[j1].VariantID # "" /\ rows[j2].VariantID # "" =>
            LET vs == ProductOf(rows[j1].ID).variants
            IN  \E n1, n2 \in 1..Len(vs) :
                    /\ vs[n1].variantId = rows[j1].VariantID
                    /\ vs[n2].variantId = rows[j2].VariantID
                    /\ \/ n1 = BaseIndex(vs)
                       \/ n2 # BaseIndex(vs) /\ vs[n1].pos <= vs[n2].pos

\* C23 as stated (output ordering): in the changed-only list and in the full
\* list the rows of different products follow the order of first encounter
\* of the products, and the rows of one product name the base variant first
\* and then the other variants in ascending order of position, whatever the
\* order of the variant rows in the input.
C23_OutputOrdering ==
    /\ ProductOrder(importOnlyChangesRows) /\ ProductOrder(importFullRows)
    /\ VariantOrder(importOnlyChangesRows) /\ VariantOrder(importFullRows)

(***************************************************************************)
(* Base variant                                                            *)
(***************************************************************************)
\* The first of the positions (a sequence of numbers) that is the smallest.
FirstSmallest(ps) ==
    CHOOSE n \in 1..Len(ps) :
        /\ \A m \in 1..Len(ps) : ps[n] <= ps[m]
        /\ \A m \in 1..(n - 1) : ps[m] # ps[n]

\* A reference price or cost as the decision uses it: 0 when it is missing
\* or not positive.
UsedValue(x) == IF x # <<>> /\ x[1] > 0 THEN x[1] ELSE 0

\* C24 (base variant selection): the base variant of every product decided
\* is its first variant at the smallest position, and the preview row of the
\* product shows the reference price and the cost of that variant alone:
\* when one of them is missing the regime is skip, nothing is priced and the
\* product is drafted unless it is a draft already; otherwise the regime and
\* the price are those the classifier and the pricing model give for the
\* two values.
C24_BaseVariant ==
    \A i \in 1..k :
        LET vs == products[i].variants
            b == FirstSmallest([n \in 1..Len(vs) |-> vs[n].pos])
            M == UsedValue(vs[b].compareAt)
            C == UsedValue(vs[b].cost)
            row == previewFull[i]
        IN  /\ BaseIndex(vs) = b
            /\ row.M_used = RoundedCell(M) /\ row.C_used = RoundedCell(C)
            /\ row.price_old = CellOfNullable(vs[b].price)
            /\ IF M > 0 /\ C > 0
               THEN /\ ~row.doDraft
                    /\ row.type = determineTypeArigato(M, C, products[i].tagsArr)
                    /\ row.price_new =
                           (IF computePricing(M, C, row.type).ok
                            THEN StringOfNumber(computePricing(M, C, row.type).price_new)
                            ELSE "")
               ELSE /\ row.type = "skip" /\ row.price_new = "" /\ ~row.doPrice
                    /\ row.doDraft <=> ToLower(products[i].status) # "draft"

\* C24 happens: two variants share the smallest position, the first one has
\* no reference price and the later one has both values; the product is
\* decided skip and drafted.
C24_Witness ==
    \E i \in 1..k :
        /\ previewFull[i].type = "skip" /\ previewFull[i].doDraft
        /\ \E n \in 2..Len(products[i].variants) :
               /\ products[i].variants[n].pos = products[i].variants[1].pos
               /\ UsedValue(products[i].variants[1].compareAt) = 0
               /\ UsedValue(products[i].variants[n].compareAt) > 0
               /\ UsedValue(products[i].variants[n].cost) > 0
               /\ \A m \in 1..Len(products[i].variants) :
                      products[i].variants[1].pos <= products[i].variants[m].pos

\* C24 in the runner script: pickBaseVariant gives the first variant at the
\* smallest position, and a product whose base variant lacks the reference
\* price or the cost is decided skip and drafted unless it is a draft.
C24_BaseVariant_run ==
    \A i \in 1..k :
        LET vs == products[i].variants
            b == FirstSmallest([n \in 1..Len(vs) |-> vs[n].position])
        IN  /\ pickBaseVariant(products[i]) = <<vs[b]>>
            /\ (UsedValue(vs[b].compareAt) = 0 \/ UsedValue(vs[b].cost) = 0) =>
                   /\ previewFull[i].type = "skip" /\ previewFull[i].price_new = ""
                   /\ previewFull[i].doDraft <=> ToLower(products[i].status) # "draft"
            /\ (UsedValue(vs[b].compareAt) > 0 /\ UsedValue(vs[b].cost) > 0) =>
                   previewFull[i].type # "skip" /\ ~previewFull[i].doDraft

\* C24 happens in the runner script: the same tie, the first variant without
\* reference price.
C24_Witness_run ==
    \E i \in 1..k :
        /\ previewFull[i].type = "skip" /\ previewFull[i].doDraft
        /\ \E n \in 2..Len(products[i].variants) :
               /\ products[i].variants[n].position = products[i].variants[1].position
               /\ products[i].variants[1].compareAt = <<>>
               /\ UsedValue(products[i].variants[n].compareAt) > 0
               /\ \A m \in 1..Len(products[i].variants) :
                      products[i].variants[1].position <= products[i].variants[m].position

(***************************************************************************)
(* The variant position and the base variant on their own                  *)
(***************************************************************************)
\* The Variant Position cell of a row: a number, a text that is no number,
\* an empty cell, or no cell at all (the row ends before the column).
PositionCells == { <<"1">>, <<"2">>, <<"x">>, <<"">>, <<>> }

\* The cells of the i-th row of product 1, in the order of EngineHeader, for
\* the position cell c; its variant id is 11, 12, ...
PositionRow(i, c) ==
    <<"1", "", "", DigitsOf(10 + i)>> \o c
    \o (IF c = <<>> THEN <<>> ELSE <<"100", "1000", "300">>)

\* The read loop and the base selection of main() on the rows args[1] of one
\* product: the positions of its variants and the id of the base variant.
CallBase ==
    /\ pc = "call"
    /\ call.fn = "base"
    /\ \E p \in {GroupRows(<<>>, [i \in 1..Len(call.args[1]) |->
                                      RowOf(call.args[1][i], EngineIndex)])[1]} :
           call' = [call EXCEPT !.result =
                       << [n \in 1..Len(p.variants) |-> p.variants[n].pos],
                          p.variants[BaseIndex(p.variants)].variantId >>]
    /\ pc' = "returned"
    /\ UNCHANGED <<input, written, error, run, applied>>
    /\ UNCHANGED readVars
    /\ UNCHANGED decideVars

\* readMatrixify and pickBaseVariant of the runner script on the rows
\* args[1] of one product.
CallBase_run ==
    /\ pc = "call"
    /\ call.fn = "base (runner)"
    /\ \E p \in {GroupRows_run(<<>>, [i \in 1..Len(call.args[1]) |->
                                          RowOf_run(EngineHeader, call.args[1][i])])[1]} :
           call' = [call EXCEPT !.result =
                       << [n \in 1..Len(p.variants) |-> p.variants[n].position],
                          pickBaseVariant(p)[1].variantId >>]
    /\ pc' = "returned"
    /\ UNCHANGED <<input, written, error, run, applied>>
    /\ UNCHANGED readVars
    /\ UNCHANGED decideVars

BaseCalls ==
    { [fn |-> fn, args |-> <<[i \in 1..Len(cs) |-> PositionRow(i, cs[i])]>>, result |-> <<>>] :
        fn \in {"base", "base (runner)"},
        cs \in SeqsUpTo(PositionCells, MaxVariants) \ {<<>>} }

InitPureBase ==
    /\ call \in BaseCalls
    /\ pc = "call"
    /\ input = <<>>
    /\ Fresh

NextPureBase == CallBase \/ CallBase_run

SpecPureBase == InitPureBase /\ [][NextPureBase]_vars

\* The row has no position cell, an empty one, or one that is no number.
NoPosition(row) ==
    \/ Len(row) < EngineIndex.VARIANT_POS
    \/ ~AllDigits(row[EngineIndex.VARIANT_POS])

\* The position the row's cell denotes, for a row with a position.
PositionOf(row) == DigitsVal(row[EngineIndex.VARIANT_POS]) * MU

\* The position sentinel holds for the returned call: each variant without
\* position has position 999999 and is not the base variant when another
\* variant has a position below 999999.
SentinelHolds ==
    \A n \in 1..Len(call.args[1]) :
        NoPosition(call.args[1][n]) =>
            /\ call.result[1][n] = 999999 * MU
            /\ (\E m \in 1..Len(call.args[1]) :
                    /\ ~NoPosition(call.args[1][m])
                    /\ PositionOf(call.args[1][m]) < 999999 * MU)
               => call.result[2] # DigitsOf(10 + n)

\* C25 as stated (position sentinel): a variant whose position cell is
\* absent, empty or unparseable gets position 999999 and is never the base
\* variant when another variant of the product has a parseable position
\* below 999999.
C25_PositionSentinel ==
    pc = "returned" /\ call.fn = "base" => SentinelHolds

\* C25 in the runner script: the same for readMatrixify and pickBaseVariant.
C25_PositionSentinel_run ==
    pc = "returned" /\ call.fn = "base (runner)" => SentinelHolds

\* C25 happens in the runner script: a variant with an empty position cell
\* comes first, a variant at position 2 is the base variant.
C25_Witness_run ==
    /\ pc = "returned" /\ call.fn = "base (runner)"
    /\ Len(call.args[1]) = 2
    /\ Len(call.args[1][1]) >= EngineIndex.VARIANT_POS
    /\ call.args[1][1][EngineIndex.VARIANT_POS] = ""
    /\ call.result = << <<999999 * MU, 2 * MU>>, "12" >>

(***************************************************************************)
(* The decision loop over products excluded by hand                        *)
(***************************************************************************)
\* Tags cells with the exclusion tag in several spellings, and one without.
ExcludedTags == {"cnfdnt", "CNFDNT, standard", "Preloved, Cnfdnt ", "standard"}

\* The cells of the first row, of product 1, and of a further row, which
\* belongs to product 1 or opens product 2 (no tags), in the order of
\* EngineHeader.
ExcludedFirstRows ==
    { <<"1", t, s, v[1], v[2], v[3], mc[1], mc[2], mf>> :
        t \in ExcludedTags, s \in {"Active", "draft"},
        v \in { <<"11", "1", "1000.00">>, <<"12", "2", "599,31">> },
        mc \in { <<"1000", "300">>, <<"", "300">> }, mf \in EngineMf }

ExcludedMoreRows ==
    { <<"1", "", "", "13", "3", "100", "1000", "300", "">>,
      <<"2", "", "", "21", "1", "100", "1000", "300", "">>,
      <<"2", "", "", "22", "2", "1000.00", "", "", "">> }

\* The state at the start of the decision loop, the read loop having
\* grouped some rows of products excluded by hand and others.
InitExcluded ==
    \E ix \in {EngineIndex} :
        /\ idx = ix
        /\ header = EngineHeader
        /\ metafieldColName = EngineMetafieldCol
        /\ \E f \in RecordsOf(ExcludedFirstRows, ix) :
           \E m \in SeqsUpTo(RecordsOf(ExcludedMoreRows, ix), MaxRows - 1) :
               products = GroupRows(<<>>, <<f>> \o m)
        /\ pc = "decide"
        /\ input = <<>>
        /\ lineNo = 0
        /\ pending = ""
        /\ delim = ","
        /\ tested = <<>>
        /\ records = <<>>
        /\ rowLog = <<>>
        /\ error = ""
        /\ k = 0
        /\ previewFull = <<>>
        /\ previewOnly = <<>>
        /\ importOnlyChangesRows = <<>>
        /\ importFullRows = <<>>
        /\ changeItems = <<>>
        /\ written = <<>>
        /\ run = 1
        /\ applied = <<>>
        /\ call = NoCall

NextExcluded == DecideProduct \/ FinishDecide \/ WriteFile

SpecExcluded == InitExcluded /\ [][NextExcluded]_vars

\* The tag list holds the exclusion tag in some spelling of upper and lower
\* case.
ExcludedByHand(tagsArr) ==
    \E n \in 1..Len(tagsArr) : ToLower(Trim(tagsArr[n])) = "cnfdnt"

\* The instruction files written so far: changed-only, full and sample.
InstructionFiles ==
    {written[f] : f \in {g \in 1..Len(written) :
                            written[g].path \in {"matrixify.import.only-changes.csv",
                                                 "matrixify.import.full.csv",
                                                 "matrixify.import.test-20.csv"}}}

\* C26 (manual exclusion): a product decided whose tag list holds cnfdnt in
\* any spelling of case has no row in the changed-only list, the full list
\* and the changed-only preview, and none in the changed-only file, the full
\* file and the sample file; its preview row has needsChange false and the
\* regime skip, whatever its prices, cost, status and other tags.
C26_ManualExclusion ==
    \A i \in 1..k :
        ExcludedByHand(products[i].tagsArr) =>
            /\ previewFull[i].productId = products[i].productId
            /\ ~previewFull[i].needsChange /\ previewFull[i].type = "skip"
            /\ ~previewFull[i].doDraft /\ ~previewFull[i].doTags
            /\ ~previewFull[i].doPrice /\ ~previewFull[i].doMetafield
            /\ \A j \in 1..Len(importOnlyChangesRows) :
                   importOnlyChangesRows[j].ID # products[i].productId
            /\ \A j \in 1..Len(importFullRows) : importFullRows[j].ID # products[i].productId
            /\ \A j \in 1..Len(previewOnly) : previewOnly[j].productId # products[i].productId
            /\ \A f \in InstructionFiles :
                   \A j \in 1..Len(f.rows) : f.rows[j].ID # products[i].productId

\* C26 happens: a product tagged CNFDNT and standard, not a draft, whose base
\* variant has no reference price, is passed over, and the sample file is
\* written with rows of another product.
C26_Witness ==
    /\ pc = "done"
    /\ \E i \in 1..k :
           /\ products[i].tagsRaw = "CNFDNT, standard"
           /\ products[i].status = "Active"
           /\ previewFull[i].msrp_gross = "0"
           /\ ~previewFull[i].needsChange
    /\ \E f \in InstructionFiles :
           f.path = "matrixify.import.test-20.csv" /\ Len(f.rows) > 0

(***************************************************************************)
(* The sample selection on its own                                         *)
(***************************************************************************)
\* The largest number of changed products of one regime.
MaxOfRegime == 20

RepeatType(type, n) == [i \in 1..n |-> type]

\* The regimes of the changed products, regime by regime.
TypesInBlocks(nS, nL, nU, nK) ==
    RepeatType("used", nU) \o RepeatType("low-margin", nL) \o RepeatType("skip", nK)
    \o RepeatType("standard", nS)

\* The regimes of the changed products, the regimes taking turns.
TypesInTurns(nS, nL, nU, nK) ==
    LET order == <<"used", "standard", "skip", "low-margin">>
        count == [t \in {"used", "standard", "skip", "low-margin"} |->
                     CASE t = "used" -> nU [] t = "standard" -> nS
                       [] t = "skip" -> nK [] OTHER -> nL]
        keep == SelectSeq([j \in 1..(4 * MaxOfRegime + 4) |-> j],
                          LAMBDA j : ((j - 1) \div 4) + 1 <= count[order[((j - 1) % 4) + 1]])
    IN  [i \in 1..Len(keep) |-> order[((keep[i] - 1) % 4) + 1]]

\* The change items of products 101, 102, ... of the regimes types.
ItemsOfTypes(types) ==
    [j \in 1..Len(types) |-> [productId |-> DigitsOf(100 + j), type |-> types[j]]]

\* The changed-only rows of the items from the j-th on: a primary row each,
\* and a secondary row for every second one.
RECURSIVE RowsOfItems(_, _)
RowsOfItems(items, j) ==
    IF j > Len(items) THEN <<>>
    ELSE <<ImportRow(items[j].productId, "", "", "Draft", "", "", "", "")>>
         \o (IF j % 2 = 0
             THEN <<ImportRow(items[j].productId, "", "", "", "v", "UPDATE", "1", "")>>
             ELSE <<>>)
         \o RowsOfItems(items, j + 1)

\* The test-20 selection of part_002 on the change items args[1] and the
\* changed-only rows args[2]: the picked product ids and the rows of the
\* sample file.
CallPick ==
    /\ pc = "call"
    /\ call.fn = "pick"
    /\ \E ids \in {pickedIds(call.args[1])} :
           call' = [call EXCEPT !.result = <<ids, FilterPicked(call.args[2], ids)>>]
    /\ pc' = "returned"
    /\ UNCHANGED <<input, written, error, run, applied>>
    /\ UNCHANGED readVars
    /\ UNCHANGED decideVars

\* The test selection of the runner script for the sample size args[3]: the
\* picked product ids in order and the rows of the sample file.
CallPick_run ==
    /\ pc = "call"
    /\ call.fn = "pick (runner)"
    /\ \E ids \in {pick_sized(call.args[1], call.args[3])} :
           call' = [call EXCEPT !.result =
                       <<ids, FilterPicked(call.args[2], {ids[i] : i \in 1..Len(ids)})>>]
    /\ pc' = "returned"
    /\ UNCHANGED <<input, written, error, run, applied>>
    /\ UNCHANGED readVars
    /\ UNCHANGED decideVars

\* Lists of change items: up to MaxOfRegime standard ones, fewer of the
\* other regimes, with or without a drafted product of regime skip, in both
\* arrangements.
SampleTypes(skips) ==
    UNION { {TypesInBlocks(nS, nL, nU, nK), TypesInTurns(nS, nL, nU, nK)} :
              nS \in {0, 1, 8, 9, MaxOfRegime}, nL \in {0, 1, 6, 7}, nU \in {0, 6, 7},
              nK \in skips }

SampleSizes == {1, 2, TEST_SIZE}

SampleCalls ==
    { [fn |-> "pick",
       args |-> <<ItemsOfTypes(ts), RowsOfItems(ItemsOfTypes(ts), 1)>>, result |-> <<>>] :
        ts \in SampleTypes({0, 1}) }
    \cup
    { [fn |-> "pick (runner)",
       args |-> <<ItemsOfTypes(ts), RowsOfItems(ItemsOfTypes(ts), 1), n>>, result |-> <<>>] :
        ts \in SampleTypes({0}), n \in SampleSizes }

InitPureSample ==
    /\ call \in SampleCalls
    /\ pc = "call"
    /\ input = <<>>
    /\ Fresh

NextPureSample == CallPick \/ CallPick_run

SpecPureSample == InitPureSample /\ [][NextPureSample]_vars

\* The rows of the products ids among rows, in the order of rows.
RowsOfPicked(rows, ids) == SelectSeq(rows, LAMBDA r : r.ID \in ids)

\* C27 (sample size bound): the fixed-quota selection picks at most 20
\* products and the configurable one at most its sample size, each product
\* once and each a changed product, and the rows of the sample file are the
\* changed-only rows of the picked products, all of them, in their order.
C27_SampleBound ==
    /\ pc = "returned" /\ call.fn = "pick" =>
           /\ Cardinality(call.result[1]) <= 20
           /\ call.result[1] \subseteq {call.args[1][j].productId : j \in 1..Len(call.args[1])}
           /\ call.result[2] = RowsOfPicked(call.args[2], call.result[1])
    /\ pc = "returned" /\ call.fn = "pick (runner)" =>
           /\ Len(call.result[1]) <= call.args[3]
           /\ \A a, b \in 1..Len(call.result[1]) :
                  a # b => call.result[1][a] # call.result[1][b]
           /\ \A a \in 1..Len(call.result[1]) :
                  \E j \in 1..Len(call.args[1]) : call.args[1][j].productId = call.result[1][a]
           /\ call.result[2] =
                  RowsOfPicked(call.args[2], {call.result[1][a] : a \in 1..Len(call.result[1])})

\* C27 happens: of more than 20 changed products, more of each regime than
\* its quota, the fixed-quota selection picks 20, and the sample file has
\* more rows than products.
C27_Witness ==
    /\ pc = "returned" /\ call.fn = "pick"
    /\ Len(call.args[1]) > 20
    /\ Cardinality(call.result[1]) = 20
    /\ Len(call.result[2]) > 20

\* C27 happens in the runner script: of more than 20 changed products 20 are
\* picked for the sample size 20.
C27_Witness_run ==
    /\ pc = "returned" /\ call.fn = "pick (runner)"
    /\ Len(call.args[1]) > 20 /\ call.args[3] = 20
    /\ Len(call.result[1]) = 20

\* C28 as stated (sample backfill): the fixed-quota selection, its quotas
\* taken, fills up from the other changed products, so that it picks
\* min(20, number of changed products) products.
C28_Backfill ==
    pc = "returned" /\ call.fn = "pick" =>
        Cardinality(call.result[1]) = Min(20, Len(call.args[1]))

\* C28 in the runner script: the selection picks min(sample size, number of
\* changed products of the three regimes) products.
C28_Backfill_run ==
    pc = "returned" /\ call.fn = "pick (runner)" =>
        Len(call.result[1]) = Min(call.args[3], Len(call.args[1]))

\* C28 happens in the runner script: 20 changed products, all of them
\* standard, and all 20 are picked.
C28_Witness_run ==
    /\ pc = "returned" /\ call.fn = "pick (runner)"
    /\ Len(call.args[1]) = 20 /\ call.args[3] = 20
    /\ \A j \in 1..20 : call.args[1][j].type = "standard"
    /\ Len(call.result[1]) = 20

\* The primary rows of the list rows: the first row of each product.
Primary(rows) == (1..Len(rows)) \ NonPrimary(rows)

\* C29 (fail-fast checks unreachable): the decision loop never aborts on a
\* primary row that names a variant without a price: whenever the primary
\* row of a product in the full list or in the changed-only list names a
\* variant, the product has a computed price_new and the row's Variant Price
\* is its text.
C29_FailFastUnreachable ==
    /\ error \notin {"full", "only-changes"}
    /\ \A rows \in {importOnlyChangesRows, importFullRows} :
           \A j \in Primary(rows) :
               rows[j].VariantID # "" =>
                   \E i \in 1..k :
                       /\ products[i].productId = rows[j].ID
                       /\ previewFull[i].price_new # ""
                       /\ rows[j].VariantPrice = previewFull[i].price_new
                       /\ rows[j].VariantCommand = "UPDATE"

\* C29 happens: the primary row of a product names a variant and carries the
\* price in the full list, and names none in the changed-only list, where a
\* secondary row updates another variant.
C29_Witness ==
    \E i \in 1..k :
        /\ previewFull[i].price_new # ""
        /\ FirstRowOf(importFullRows, products[i].productId).VariantID # ""
        /\ FirstRowOf(importFullRows, products[i].productId).VariantPrice = previewFull[i].price_new
        /\ Len(ChangedRowsOf(products[i].productId)) = 2
        /\ ChangedRowsOf(products[i].productId)[1].VariantID = ""
        /\ ChangedRowsOf(products[i].productId)[1].VariantPrice = ""

\* Nothing has been decided and nothing written.
NothingDecided ==
    /\ k = 0 /\ previewFull = <<>> /\ previewOnly = <<>>
    /\ importOnlyChangesRows = <<>> /\ importFullRows = <<>> /\ changeItems = <<>>
    /\ written = <<>>

\* C30 (unterminated record): when the input ends while the pending buffer
\* is not empty, the next step of the run is the abort with the fatal error
\* of the unfinished record, and the run has left the read loop with a
\* buffer only in this way, nothing decided and nothing written; the buffer,
\* whose number of quotes is odd, is not among the records handed to the row
\* parser, and each of these has an even number of quotes.
C30_UnterminatedRecord ==
    /\ [](/\ (pending # "" /\ pc # "read") =>
                 /\ pc = "aborted" /\ error = "quotes"
                 /\ lineNo = Len(input)
                 /\ NothingDecided
          /\ pending # "" =>
                 /\ CountChar(pending, "\"") % 2 = 1
                 /\ \A i \in 1..Len(records) : records[i] # pending
          /\ \A i \in 1..Len(records) : CountChar(records[i], "\"") % 2 = 0
          /\ Len(rowLog) <= Len(records))
    /\ [][(pc = "read" /\ lineNo = Len(input) /\ pending # "") =>
              (pc' = "aborted" /\ error' = "quotes" /\ pending' = pending
               /\ records' = records /\ products' = products)]_vars

\* C30 happens: the run has aborted on an unfinished record at the end of
\* the input, after a data record with quotes had been grouped.
C30_Witness ==
    /\ pc = "aborted" /\ error = "quotes"
    /\ pending # ""
    /\ Len(products) = 1
    /\ \E i \in 2..Len(records) : CountChar(records[i], "\"") = 2

==============================================================================
